---------------------------- MODULE Spec2Model ----------------------------
(***************************************************************************)
(* postcss-color-mod-function: the color-mod() transform of                *)
(* src/index.cjs.js (the same code as src/lib/transform.js), modelled as a *)
(* state machine that walks one declaration value, and the plugin around   *)
(* it: the import of custom properties and the Once hook.                  *)
(*                                                                         *)
(* Numbers are integers: a channel is a whole percentage, a hue a whole    *)
(* degree.  Real division is Div (truncating); the inputs of the model are *)
(* chosen so that the literal conversions (n / 2.55, hex digits) are       *)
(* exact.                                                                  *)
(***************************************************************************)
EXTENDS Integers, Sequences, FiniteSets, TLC

VARIABLES
    ast,        \* root.nodes: the token list of the declaration value
    original,   \* the token list as it was parsed (history)
    opts,       \* [unresolved, transformVars, customProperties]
    pc,         \* position inside transformAST for the call site at index pos
    pos,        \* index of the call site in ast
    color,      \* the value accumulated by transformColorModFunction
    receiver,   \* the colour object the last mutator was called on, after the call
    before,     \* the same object before the call (history)
    adjusted,   \* number of adjuster nodes already folded
    warnings,   \* messages passed to decl.warn, in order
    thrown,     \* "none", or the kind of the exception that left transformAST
    stack,      \* the calls of transformAST this one was made from: for each,
                \* its token list, the index it stands at, the list as parsed
    importFrom, \* the sources of custom properties the plugin was created with
    customPropertiesPromise,
                \* the promise of importCustomPropertiesFromSources(importFrom):
                \* its state, the sources merged so far, the object it resolves to
    sheets      \* the stylesheets handed to Once: their rules, declarations and run

pluginVars == <<importFrom, customPropertiesPromise, sheets>>

vars == <<ast, original, opts, pc, pos, color, receiver, before, adjusted, warnings, thrown,
          stack, importFrom, customPropertiesPromise, sheets>>

(***************************************************************************)
(* Bounds of the model.                                                    *)
(***************************************************************************)
MaxAdjusters == 2

(***************************************************************************)
(* Arithmetic helpers.                                                     *)
(***************************************************************************)
Abs(x) == IF x < 0 THEN -x ELSE x

Min2(a, b) == IF a < b THEN a ELSE b

Max2(a, b) == IF a > b THEN a ELSE b

\* JavaScript a / b on numbers, truncated to an integer (b # 0)
Div(a, b) ==
    LET q == Abs(a) \div Abs(b)
    IN  IF (a < 0) = (b < 0) THEN q ELSE -q

\* JavaScript a % b: the remainder takes the sign of the dividend
Rem(a, b) == IF a >= 0 THEN a % b ELSE -((-a) % b)

(***************************************************************************)
(* Tokens of postcss-value-parser.  A node is a record with a type and a   *)
(* value; only function nodes carry nodes.  The value of a numeric word is *)
(* kept as what parser.unit() reads from its text: number and unit.        *)
(***************************************************************************)
Word(text) == [type |-> "word", value |-> [text |-> text]]

Dim(number, unit) == [type |-> "word", value |-> [number |-> number, unit |-> unit]]

Fn(name, nodes) == [type |-> "function", value |-> [text |-> name], nodes |-> nodes]

DivTok(text) == [type |-> "div", value |-> [text |-> text]]

Space == [type |-> "space", value |-> [text |-> " "]]

\* node.value as text ("" stands for the text of a numeric word, which no
\* name pattern matches)
Text(node) == IF "text" \in DOMAIN node.value THEN node.value.text ELSE ""

\* String.prototype.toLowerCase on the names the model uses
ToLowerCase(s) ==
    CASE s = "BLENDA" -> "blenda"
      [] s = "BLEND"  -> "blend"
      [] s = "HSL"    -> "hsl"
      [] s = "HWB"    -> "hwb"
      [] s = "RGB"    -> "rgb"
      [] s = "ALPHA"  -> "alpha"
      [] s = "VAR"    -> "var"
      [] s = "DEG"    -> "deg"
      [] OTHER        -> s

\* parser.unit(node.value): FALSE for a word that is no number
HasUnit(node) == "number" \in DOMAIN node.value

HasNodes(node) == "nodes" \in DOMAIN node

(***************************************************************************)
(* Values a transform returns.                                             *)
(***************************************************************************)
Undefined == [k |-> "undefined"]

NumV(n) == [k |-> "number", n |-> n]

StrV(s) == [k |-> "string", s |-> s]

BoolV(b) == [k |-> "boolean", b |-> b]

NodeV(node) == [k |-> "node", node |-> node]

ColorV(c) == [k |-> "Color", color |-> c]

\* a TypeError raised while a value was computed
TypeErrorV == [k |-> "TypeError"]

IsColor(v) == v.k = "Color"

(***************************************************************************)
(* Angle and literal conversions (src/index.cjs.js 183-206, 364, 371-385). *)
(***************************************************************************)
convertDtoD(deg) == Rem(deg, 360)

\* grad * 0.9 % 360
convertGtoD(grad) == Rem(Div(grad * 9, 10), 360)

\* rad * 180 / Math.PI % 360, with 180 / pi taken as 57.2958
convertRtoD(rad) == Rem(Div(rad * 572958, 10000), 360)

convertTtoD(turn) == Rem(turn * 360, 360)

\* the names table, for the names the model uses (0..255 per channel)
NamedColors ==
    [red |-> <<255, 0, 0>>, white |-> <<255, 255, 255>>, black |-> <<0, 0, 0>>,
     yellow |-> <<255, 255, 0>>, blue |-> <<0, 0, 255>>, lime |-> <<0, 255, 0>>]

\* c / 2.55
Div255(c) == Div(c * 100, 255)

\* convertNtoRGB(name): the three channels as percentages, or <<>> for an
\* unknown name (undefined)
convertNtoRGB(name) ==
    IF name \in DOMAIN NamedColors
    THEN [i \in 1..3 |-> Div255(NamedColors[name][i])]
    ELSE <<>>

\* The hex colours the model uses, as the bytes hexColorMatch and parseInt
\* read from their text: red, green, blue, alpha (255 when the text has no
\* alpha digits)
HexColors ==
    ("#336699" :> <<51, 102, 153, 255>>) @@ ("#ff0000" :> <<255, 0, 0, 255>>) @@
    ("#33333333" :> <<51, 51, 51, 51>>) @@ ("#ffffff" :> <<255, 255, 255, 255>>)

hexColorMatch(text) == text \in DOMAIN HexColors

\* convertHtoRGB(hex): [red, green, blue, alpha].map(c => c / 2.55)
convertHtoRGB(hex) == [i \in 1..4 |-> Div255(HexColors[hex][i])]

(***************************************************************************)
(* @csstools/convert-colors, as called from color2rgb, color2hsl,          *)
(* color2hwb, the Color constructor and assign: the CSS formulas in        *)
(* integer arithmetic.                                                     *)
(***************************************************************************)
Max3(r, g, b) == Max2(r, Max2(g, b))

Min3(r, g, b) == Min2(r, Min2(g, b))

\* a quotient of formulas that JavaScript evaluates to an infinity when the
\* divisor is 0 (only colours with a channel outside 0..100 get there); the
\* model keeps a number of that sign far outside every channel range
Quot(a, b) == IF b = 0 THEN (IF a < 0 THEN -100000 ELSE 100000) ELSE Div(a, b)

rgb2hue(r, g, b, fallbackhue) ==
    LET value == Max3(r, g, b)
        whiteness == Min3(r, g, b)
        delta == value - whiteness
        num == IF value = r THEN g - b ELSE IF value = g THEN b - r ELSE r - g
        shift == IF value = r THEN (IF num < 0 THEN 360 ELSE 0)
                 ELSE IF value = g THEN 120 ELSE 240
    IN  IF delta # 0 THEN Div(num * 60, delta) + shift ELSE fallbackhue

hue2rgb(t1, t2, hue) ==
    LET rhue == IF hue < 0 THEN hue + 360 ELSE IF hue > 360 THEN hue - 360 ELSE hue
    IN  IF rhue * 6 < 360 THEN t1 + Div((t2 - t1) * rhue, 60)
        ELSE IF rhue * 2 < 360 THEN t2
        ELSE IF rhue * 3 < 720 THEN t1 + Div((t2 - t1) * (240 - rhue), 60)
        ELSE t1

hsl2rgb(h, s, l) ==
    LET t2 == IF l <= 50 THEN Div(l * (s + 100), 100) ELSE l + s - Div(l * s, 100)
        t1 == l * 2 - t2
    IN  <<hue2rgb(t1, t2, h + 120), hue2rgb(t1, t2, h), hue2rgb(t1, t2, h - 120)>>

rgb2hsl(r, g, b, fallbackhue) ==
    LET h == rgb2hue(r, g, b, fallbackhue)
        v == Max3(r, g, b)
        w == Min3(r, g, b)
        d == v - w
        l == Div(v + w, 2)
        s == IF d = 0 THEN 0 ELSE Quot(d * 100, 100 - Abs(v + w - 100))
    IN  <<h, s, l>>

rgb2hwb(r, g, b, fallbackhue) ==
    <<rgb2hue(r, g, b, fallbackhue), Min3(r, g, b), 100 - Max3(r, g, b)>>

\* a pure hue whitened by w and blackened by b
whitenBlacken(p, w, b) == [i \in 1..3 |-> Div(p[i] * (100 - w - b), 100) + w]

hwb2rgb(h, w, b) == whitenBlacken(hsl2rgb(h, 100, 50), w, b)

\* whiteness and blackness of the rgb triple p, with the hue kept
rgb2hwbKeepingHue(p, h) == <<h, Min3(p[1], p[2], p[3]), 100 - Max3(p[1], p[2], p[3])>>

hsl2hwb(h, s, l) == rgb2hwbKeepingHue(hsl2rgb(h, s, l), h)

\* saturation and lightness of the hsl triple q, with the hue kept
keepHue(q, h) == <<h, q[2], q[3]>>

\* rgb2hsl of the rgb triple p, with the hue kept
rgb2hslKeepingHue(p, h) == keepHue(rgb2hsl(p[1], p[2], p[3], h), h)

hwb2hsl(h, w, b) == rgb2hslKeepingHue(hwb2rgb(h, w, b), h)

(***************************************************************************)
(* Colour objects.  A colour object is a record: colorspace, the channels  *)
(* of that colourspace, alpha, and hue.                                    *)
(***************************************************************************)
\* color.hue || 0
HueOr0(c) == IF "hue" \in DOMAIN c THEN c.hue ELSE 0

\* the colorspace the constructor of Color settles on
colorspaceOf(c) ==
    IF "colorspace" \in DOMAIN c THEN c.colorspace
    ELSE IF {"red", "green", "blue"} \subseteq DOMAIN c THEN "rgb"
    ELSE IF {"hue", "saturation", "lightness"} \subseteq DOMAIN c THEN "hsl"
    ELSE IF {"hue", "whiteness", "blackness"} \subseteq DOMAIN c THEN "hwb"
    ELSE "unknown"

\* new Color(color): keeps the object it is given, fills in the colorspace
\* and, for rgb, the hue.  rgb2hue of a channel that is undefined returns
\* its fallback (the difference of maximum and minimum is NaN).
NewColor(c) ==
    IF colorspaceOf(c) = "rgb"
    THEN ("hue" :> IF {"red", "green", "blue"} \subseteq DOMAIN c
                   THEN rgb2hue(c.red, c.green, c.blue, HueOr0(c))
                   ELSE HueOr0(c)) @@
         ("colorspace" :> "rgb") @@ c
    ELSE ("colorspace" :> colorspaceOf(c)) @@ c

\* the alpha of a colour object, carried over when the object has one (the
\* shade and tint objects of Color.shade and Color.tint have none)
WithAlpha(rec, c) == IF "alpha" \in DOMAIN c THEN ("alpha" :> c.alpha) @@ rec ELSE rec

\* { red, green, blue, hue: color.hue, alpha: color.alpha, colorspace: 'rgb' }
rgbObject(p, c) ==
    WithAlpha([red |-> p[1], green |-> p[2], blue |-> p[3], hue |-> c.hue,
               colorspace |-> "rgb"], c)

\* the same object for [ color.red, color.green, color.blue ]: a channel the
\* colour lacks is undefined in the object too
rgbObjectOfRGB(c) ==
    WithAlpha(("colorspace" :> "rgb") @@
              [name \in DOMAIN c \cap {"red", "green", "blue", "hue"} |-> c[name]], c)

color2rgb(c) ==
    IF c.colorspace = "hsl" THEN rgbObject(hsl2rgb(c.hue, c.saturation, c.lightness), c)
    ELSE IF c.colorspace = "hwb" THEN rgbObject(hwb2rgb(c.hue, c.whiteness, c.blackness), c)
    ELSE rgbObjectOfRGB(c)

\* { hue, saturation, lightness, alpha: color.alpha, colorspace: 'hsl' }
hslObject(p, c) ==
    WithAlpha([hue |-> p[1], saturation |-> p[2], lightness |-> p[3],
               colorspace |-> "hsl"], c)

color2hsl(c) ==
    hslObject(IF c.colorspace = "rgb" THEN rgb2hsl(c.red, c.green, c.blue, c.hue)
              ELSE IF c.colorspace = "hwb" THEN hwb2hsl(c.hue, c.whiteness, c.blackness)
              ELSE <<c.hue, c.saturation, c.lightness>>, c)

\* { hue, whiteness, blackness, alpha: color.alpha, colorspace: 'hwb' }
hwbObject(p, c) ==
    WithAlpha([hue |-> p[1], whiteness |-> p[2], blackness |-> p[3],
               colorspace |-> "hwb"], c)

color2hwb(c) ==
    hwbObject(IF c.colorspace = "rgb" THEN rgb2hwb(c.red, c.green, c.blue, c.hue)
              ELSE IF c.colorspace = "hsl" THEN hsl2hwb(c.hue, c.saturation, c.lightness)
              ELSE <<c.hue, c.whiteness, c.blackness>>, c)

\* blueGreenRedMatch.test(channel)
blueGreenRedMatch(channel) == channel \in {"blue", "green", "red"}

\* a normalize that wraps the hue and leaves every other channel as computed
normalizeWithoutClamp(value, channel) == IF channel = "hue" THEN Rem(value, 360) ELSE value

normalize(value, channel) ==
    Min2(Max2(IF channel = "hue" THEN Rem(value, 360) ELSE value, 0),
         IF channel = "hue" THEN 360 ELSE 100)

\* color[channel] = value, and for red, green and blue the hue follows
assignChannel(set, base, channel) ==
    IF blueGreenRedMatch(channel)
    THEN ("hue" :> rgb2hue(set.red, set.green, set.blue, HueOr0(base))) @@ set
    ELSE set

\* assign(base, channels), channels given as <<name, value>> pairs in key
\* order.  The channels are written to a copy of base (Object.assign({},
\* base)); the result names the object returned and the object base refers
\* to once assign has returned.
RECURSIVE assignChannels(_, _, _)
assignChannels(c, base, channels) ==
    IF channels = <<>> THEN c
    ELSE assignChannels(
            assignChannel((channels[1][1] :> normalize(channels[1][2], channels[1][1])) @@ c,
                          base, channels[1][1]),
            base, Tail(channels))

\* an assign that writes the channels to base itself
assignInPlace(base, channels) ==
    [color |-> assignChannels(base, base, channels),
     base |-> assignChannels(base, base, channels)]

assign(base, channels) ==
    [color |-> assignChannels(base, base, channels), base |-> base]

\* a * subtraction + b * addition, with addition = percentage / 100
Mix(a, b, percentage) == Div(a * (100 - percentage) + b * percentage, 100)

\* the blend of two colour objects of the same colourspace
blendChannels(c1, c2, percentage, colorspace, isBlendingAlpha) ==
    IF colorspace = "hsl"
    THEN [hue |-> Mix(c1.hue, c2.hue, percentage),
          saturation |-> Mix(c1.saturation, c2.saturation, percentage),
          lightness |-> Mix(c1.lightness, c2.lightness, percentage),
          alpha |-> IF isBlendingAlpha THEN Mix(c1.alpha, c2.alpha, percentage) ELSE c1.alpha,
          colorspace |-> "hsl"]
    ELSE IF colorspace = "hwb"
    THEN [hue |-> Mix(c1.hue, c2.hue, percentage),
          whiteness |-> Mix(c1.whiteness, c2.whiteness, percentage),
          blackness |-> Mix(c1.blackness, c2.blackness, percentage),
          alpha |-> IF isBlendingAlpha THEN Mix(c1.alpha, c2.alpha, percentage) ELSE c1.alpha,
          colorspace |-> "hwb"]
    ELSE [red |-> Mix(c1.red, c2.red, percentage),
          green |-> Mix(c1.green, c2.green, percentage),
          blue |-> Mix(c1.blue, c2.blue, percentage),
          alpha |-> IF isBlendingAlpha THEN Mix(c1.alpha, c2.alpha, percentage) ELSE c1.alpha,
          colorspace |-> "rgb"]

\* color2hsl, color2hwb or color2rgb, as blend picks it for colorspace
color2space(c, colorspace) ==
    IF colorspace = "hsl" THEN color2hsl(c)
    ELSE IF colorspace = "hwb" THEN color2hwb(c)
    ELSE color2rgb(c)

\* a blend that interpolates the alpha whatever it is asked
blendInterpolatingAlpha(base, other, percentage, colorspace, isBlendingAlpha) ==
    blendChannels(color2space(base, colorspace), color2space(other, colorspace),
                  percentage, colorspace, TRUE)

blend(base, other, percentage, colorspace, isBlendingAlpha) ==
    blendChannels(color2space(base, colorspace), color2space(other, colorspace),
                  percentage, colorspace, isBlendingAlpha)

(***************************************************************************)
(* Contrast (src/index.cjs.js 680-770).  channel2luminance is tabulated at *)
(* the whole percentages 1..100 (rounded to a whole number); a luminance   *)
(* is kept in hundredths.                                                  *)
(***************************************************************************)
LuminanceTable ==
    <<1, 5, 13, 25, 43, 66, 96, 131, 174, 224, 281, 346, 419, 500, 590,
      688, 795, 912, 1038, 1174, 1319, 1474, 1640, 1816, 2002, 2200, 2408,
      2627, 2857, 3099, 3352, 3617, 3894, 4182, 4483, 4796, 5122, 5460,
      5811, 6174, 6550, 6940, 7343, 7759, 8188, 8631, 9088, 9558, 10042,
      10541, 11053, 11580, 12121, 12677, 13247, 13831, 14431, 15046, 15675,
      16320, 16980, 17655, 18345, 19051, 19773, 20510, 21263, 22032, 22817,
      23618, 24436, 25269, 26119, 26985, 27868, 28767, 29684, 30617, 31566,
      32533, 33517, 34518, 35536, 36572, 37625, 38695, 39783, 40889, 42012,
      43153, 44312, 45489, 46684, 47897, 49129, 50378, 51646, 52932, 54237,
      55561>>

\* value <= 0.03928 ? value / 12.92 : Math.pow((value + 0.055) / 1.055, 2.4)
\* Past 100 (only a colour with a channel outside 0..100 gets there) the
\* model follows the tangent at 100, up to the value 1000.
channel2luminance(value) ==
    IF value <= 0 THEN Div(value * 100, 1292)
    ELSE IF value <= 100 THEN LuminanceTable[value]
    ELSE LuminanceTable[100] + (Min2(value, 1000) - 100) * 1333

\* 0.2126 * red + 0.7152 * green + 0.0722 * blue, in hundredths
rgb2luminance(red, green, blue) ==
    Div(213 * channel2luminance(red) + 715 * channel2luminance(green)
        + 72 * channel2luminance(blue), 10)

\* rgb2luminance(rgb.red, rgb.green, rgb.blue)
luminanceOf(rgb) == rgb2luminance(rgb.red, rgb.green, rgb.blue)

\* (lighter + 0.05) / (darker + 0.05) > 4.5, on luminances in hundredths
ratioOver45(l1, l2) ==
    IF l1 > l2 THEN 2 * (l1 + 5) > 9 * (l2 + 5) ELSE 2 * (l2 + 5) > 9 * (l1 + 5)

\* colors2contrast(color1, color2) > 4.5
contrastOver45(color1, color2) ==
    ratioOver45(luminanceOf(color2rgb(color1)), luminanceOf(color2rgb(color2)))

\* Math.round((a + b) / 2)
RoundHalf(a, b) == (a + b + 1) \div 2

\* a search that goes on until the interval is one unit wide
searchContinuesToUnit(minW, minB, maxW, maxB) ==
    Abs(minW - maxW) > 1 \/ Abs(minB - maxB) > 1

\* Math.abs(minW - maxW) > 100 || Math.abs(minB - maxB) > 100
searchContinues(minW, minB, maxW, maxB) ==
    Abs(minW - maxW) > 100 \/ Abs(minB - maxB) > 100

\* the while loop of colors2contrastRatioColor: its condition, and the body
\* on the midpoint
RECURSIVE contrastSearch(_, _, _, _, _, _)
RECURSIVE contrastSearchBody(_, _, _, _, _, _, _, _)
contrastSearchBody(hwb, modifiedHWB, minW, minB, maxW, maxB, midW, midB) ==
    IF contrastOver45(modifiedHWB, hwb)
    THEN contrastSearch(hwb, modifiedHWB, minW, minB, midW, midB)
    ELSE contrastSearch(hwb, modifiedHWB, midW, midB, maxW, maxB)

contrastSearch(hwb, modifiedHWB, minW, minB, maxW, maxB) ==
    IF searchContinues(minW, minB, maxW, maxB)
    THEN contrastSearchBody(hwb,
            [modifiedHWB EXCEPT !.whiteness = RoundHalf(maxW, minW),
                                !.blackness = RoundHalf(maxB, minB)],
            minW, minB, maxW, maxB, RoundHalf(maxW, minW), RoundHalf(maxB, minB))
    ELSE modifiedHWB

colors2contrastRatioColor(hwb, maxHWB) ==
    contrastSearch(hwb, hwb, hwb.whiteness, hwb.blackness, maxHWB.whiteness, maxHWB.blackness)

\* luminance < 0.5 ? hwb(X, 100%, 0%) : hwb(X, 0%, 100%)
maxContrastColorOf(hwb, luminance) ==
    IF luminance < 50
    THEN [hue |-> hwb.hue, whiteness |-> 100, blackness |-> 0,
          alpha |-> hwb.alpha, colorspace |-> "hwb"]
    ELSE [hue |-> hwb.hue, whiteness |-> 0, blackness |-> 100,
          alpha |-> hwb.alpha, colorspace |-> "hwb"]

\* contrastRatio > 4.5 ? colors2contrastRatioColor(hwb, max) : max
minContrastColorOf(c, hwb, maxContrastColor) ==
    IF contrastOver45(c, maxContrastColor)
    THEN colors2contrastRatioColor(hwb, maxContrastColor)
    ELSE maxContrastColor

\* blend(maxContrastColor, minContrastColor, percentage, 'hwb', false)
contrastBlend(c, hwb, maxContrastColor, percentage) ==
    blend(maxContrastColor, minContrastColorOf(c, hwb, maxContrastColor),
          percentage, "hwb", FALSE)

\* contrast(color, percentage), given hwb = color2hwb(color)
contrastOfHWB(c, hwb, percentage) ==
    contrastBlend(c, hwb, maxContrastColorOf(hwb, luminanceOf(color2rgb(c))), percentage)

contrast(c, percentage) == contrastOfHWB(c, color2hwb(c), percentage)

(***************************************************************************)
(* The methods of Color (src/index.cjs.js 408-522), on the colour object   *)
(* of the receiver.  A getter returns the channel; a setter returns the    *)
(* colour object of the new Color (ret) and the receiver's colour object   *)
(* as the call leaves it (this).                                           *)
(***************************************************************************)
Color_get(this, channel) ==
    CASE channel = "alpha" -> this.alpha
      [] channel \in {"red", "green", "blue"} -> color2rgb(this)[channel]
      [] channel \in {"hue", "saturation", "lightness"} -> color2hsl(this)[channel]
      [] channel \in {"whiteness", "blackness", "shade", "tint"} ->
            color2hwb(this)[IF channel = "whiteness" THEN "whiteness" ELSE "blackness"]

\* new Color(assign(color, { alpha })): assign is handed the receiver's own
\* colour object
newColorOfAssigned(a) == [ret |-> NewColor(a.color), this |-> a.base]

\* the colour shade and tint blend with
shadeOrTint(channel) ==
    IF channel = "shade"
    THEN [hue |-> 0, whiteness |-> 0, blackness |-> 100, colorspace |-> "hwb"]
    ELSE [hue |-> 0, whiteness |-> 100, blackness |-> 0, colorspace |-> "hwb"]

Color_set(this, channel, value) ==
    CASE channel = "alpha" ->
            newColorOfAssigned(assign(this, <<<<"alpha", value>>>>))
      [] channel \in {"red", "green", "blue"} ->
            [ret |-> NewColor(assign(color2rgb(this), <<<<channel, value>>>>).color), this |-> this]
      [] channel \in {"hue", "saturation", "lightness"} ->
            [ret |-> NewColor(assign(color2hsl(this), <<<<channel, value>>>>).color), this |-> this]
      [] channel \in {"whiteness", "blackness"} ->
            [ret |-> NewColor(assign(color2hwb(this), <<<<channel, value>>>>).color), this |-> this]
      [] channel \in {"shade", "tint"} ->
            [ret |-> NewColor(blend(color2hwb(this), shadeOrTint(channel), value, "rgb", FALSE)),
             this |-> this]

Color_rgb(this, red, green, blue) ==
    [ret |-> NewColor(assign(color2rgb(this),
                <<<<"red", red>>, <<"green", green>>, <<"blue", blue>>>>).color),
     this |-> this]

Color_blend(this, other, percentage, colorspace) ==
    [ret |-> NewColor(blend(this, other, percentage, colorspace, FALSE)), this |-> this]

Color_blenda(this, other, percentage, colorspace) ==
    [ret |-> NewColor(blend(this, other, percentage, colorspace, TRUE)), this |-> this]

Color_contrast(this, percentage) ==
    [ret |-> NewColor(contrast(this, percentage)), this |-> this]

(***************************************************************************)
(* Validators (src/index.cjs.js 1457-1612) and matchers (1617-1636).       *)
(***************************************************************************)
isFunctionNamed(node, names) == node.type = "function" /\ ToLowerCase(Text(node)) \in names

isVariable(node) == isFunctionNamed(node, {"var"})

alphaMatch(text) == ToLowerCase(text) \in {"a", "alpha"}

isAlphaBlueGreenRedAdjuster(node) == isFunctionNamed(node, {"a", "alpha", "blue", "green", "red"})

isRGBAdjuster(node) == isFunctionNamed(node, {"rgb"})

isHueAdjuster(node) == isFunctionNamed(node, {"h", "hue"})

isBlacknessLightnessSaturationWhitenessAdjuster(node) ==
    isFunctionNamed(node, {"b", "blackness", "l", "lightness", "s", "saturation", "w", "whiteness"})

isShadeTintAdjuster(node) == isFunctionNamed(node, {"shade", "tint"})

isBlendAdjuster(node) == isFunctionNamed(node, {"blend", "blenda"})

isContrastAdjuster(node) == isFunctionNamed(node, {"contrast"})

isRGBFunction(node) == isFunctionNamed(node, {"rgb", "rgba"})

isHSLFunction(node) == isFunctionNamed(node, {"hsl", "hsla"})

isHWBFunction(node) == isFunctionNamed(node, {"hwb"})

isColorModFunction(node) == isFunctionNamed(node, {"color-mod"})

isNamedColor(node) == node.type = "word" /\ convertNtoRGB(Text(node)) # <<>>

isHexColor(node) == node.type = "word" /\ hexColorMatch(Text(node))

isColorSpace(node) == node.type = "word" /\ ToLowerCase(Text(node)) \in {"hsl", "hwb", "rgb"}

isHue(node) ==
    /\ node.type = "word"
    /\ HasUnit(node)
    /\ ToLowerCase(node.value.unit) \in {"", "deg", "grad", "rad", "turn"}

isComma(node) == node.type = "div" /\ Text(node) = ","

isSlash(node) == node.type = "div" /\ Text(node) = "/"

isNumber(node) == node.type = "word" /\ HasUnit(node) /\ node.value.unit = ""

isMinusPlusOperator(node) == node.type = "word" /\ Text(node) \in {"+", "-"}

isMinusPlusTimesOperator(node) == node.type = "word" /\ Text(node) \in {"*", "+", "-"}

isTimesOperator(node) == node.type = "word" /\ Text(node) = "*"

isPercentage(node) ==
    /\ node.type = "word"
    /\ HasUnit(node)
    /\ (node.value.unit = "%" \/ node.value.number = 0)

isWord(node) == node.type = "word"

(***************************************************************************)
(* manageUnresolved (861-867): what one report does under a policy.  A     *)
(* result is the value returned (v), the warnings emitted (w) and the      *)
(* exception raised (t, "none" when the call returned).                    *)
(***************************************************************************)
Returned(v) == [v |-> v, w |-> <<>>, t |-> "none"]

Raised(kind, w) == [v |-> Undefined, w |-> w, t |-> kind]

manageUnresolved(unresolved, message) ==
    IF unresolved = "warn" THEN [v |-> Undefined, w |-> <<message>>, t |-> "none"]
    ELSE IF unresolved # "ignore" THEN Raised("CssSyntaxError", <<>>)
    ELSE Returned(Undefined)

(***************************************************************************)
(* Argument transforms (1319-1428), as transformArgsByParams calls them:   *)
(* with { unresolved: 'ignore' }, so a failure is the value undefined.     *)
(***************************************************************************)
transformColorSpace(node) == IF isColorSpace(node) THEN StrV(Text(node)) ELSE Undefined

transformPercentage(node) == IF isPercentage(node) THEN NumV(node.value.number) ELSE Undefined

transformAlpha(node) ==
    IF isNumber(node) THEN NumV(node.value.number * 100)
    ELSE IF isPercentage(node) THEN transformPercentage(node)
    ELSE Undefined

transformRGBNumber(node) == IF isNumber(node) THEN NumV(Div255(node.value.number)) ELSE Undefined

transformHue(node) ==
    IF isHue(node)
    THEN LET unit == ToLowerCase(node.value.unit)
             number == node.value.number
         IN  NumV(IF unit = "grad" THEN convertGtoD(number)
                  ELSE IF unit = "rad" THEN convertRtoD(number)
                  ELSE IF unit = "turn" THEN convertTtoD(number)
                  ELSE convertDtoD(number))
    ELSE Undefined

transformMinusPlusOperator(node) == IF isMinusPlusOperator(node) THEN StrV(Text(node)) ELSE Undefined

transformTimesOperator(node) == IF isTimesOperator(node) THEN StrV(Text(node)) ELSE Undefined

transformMinusPlusTimesOperator(node) ==
    IF isMinusPlusTimesOperator(node) THEN StrV(Text(node)) ELSE Undefined

transformWord(node) == IF isWord(node) THEN StrV(Text(node)) ELSE Undefined

transformNode(node) == NodeV(node)

\* transformHexColor(node, opts) as an argument transform
transformHexColorArg(node) ==
    IF hexColorMatch(Text(node))
    THEN LET c == convertHtoRGB(Text(node))
         IN  ColorV(NewColor([red |-> c[1], green |-> c[2], blue |-> c[3], alpha |-> c[4]]))
    ELSE Undefined

(***************************************************************************)
(* transformArgsByParams (1434-1451).  A pattern is a sequence of the      *)
(* names of its position transforms.                                       *)
(***************************************************************************)
RECURSIVE transformColor(_, _)

notSpaceOrComment(node) == node.type # "space" /\ node.type # "comment"

\* the value a position transform returns; an exception raised inside it
\* (a TypeError, the policy being 'ignore') stays an exception
valueOrTypeError(r) == IF r.t # "none" THEN TypeErrorV ELSE r.v

\* param[index](childNode, opts)
applyParam(name, childNode) ==
    CASE name = "transformPercentage" -> transformPercentage(childNode)
      [] name = "transformRGBNumber" -> transformRGBNumber(childNode)
      [] name = "transformAlpha" -> transformAlpha(childNode)
      [] name = "transformHue" -> transformHue(childNode)
      [] name = "transformMinusPlusOperator" -> transformMinusPlusOperator(childNode)
      [] name = "transformTimesOperator" -> transformTimesOperator(childNode)
      [] name = "transformMinusPlusTimesOperator" -> transformMinusPlusTimesOperator(childNode)
      [] name = "transformHexColor" -> transformHexColorArg(childNode)
      [] name = "transformColorSpace" -> transformColorSpace(childNode)
      [] name = "transformWord" -> transformWord(childNode)
      [] name = "transformNode" -> transformNode(childNode)
      [] name = "isComma" -> BoolV(isComma(childNode))
      [] name = "isSlash" -> BoolV(isSlash(childNode))
      [] name = "transformColor" -> valueOrTypeError(transformColor(childNode, "ignore"))

notBoolean(v) == v.k # "boolean"

\* one pattern applied to the children: nodes.map(...).filter(...)
paramResults(nodes, param) ==
    SelectSeq([index \in 1..Len(nodes) |->
                  IF index <= Len(param) THEN applyParam(param[index], nodes[index])
                  ELSE Undefined],
              notBoolean)

everyDefined(results) == \A i \in 1..Len(results) : results[i] # Undefined

\* (node.nodes || []).filter(...)
childrenOf(node) == SelectSeq(IF HasNodes(node) THEN node.nodes ELSE <<>>, notSpaceOrComment)

\* params.map(...) over the children
paramsResultsOf(nodes, params) == [p \in 1..Len(params) |-> paramResults(nodes, params[p])]

\* all patterns are evaluated (params.map) before the first full match is
\* taken
paramsResults(node, params) == paramsResultsOf(childrenOf(node), params)

\* an exception raised by a position transform leaves transformArgsByParams
hasTypeError(all) == \E p \in 1..Len(all) : \E i \in 1..Len(all[p]) : all[p][i] = TypeErrorV

\* list[0] || []
firstOrEmpty(matching) == IF matching # <<>> THEN matching[1] ELSE <<>>

\* .filter(param => param.every(result => result !== undefined))[0] || []
firstMatch(all) == firstOrEmpty(SelectSeq(all, everyDefined))

transformArgsByParams(node, params) == firstMatch(paramsResults(node, params))

\* const [a, b, c] = list: the element, or undefined past the end
Nth(list, i) == IF i <= Len(list) THEN list[i] ELSE Undefined

(***************************************************************************)
(* Colour functions (942-1070).  A missing channel is left out of the      *)
(* colour object.                                                          *)
(***************************************************************************)
\* an object literal { name: value, ... }: a property whose value is
\* undefined is left out
ObjectOf(pairs) ==
    LET defined == {i \in 1..Len(pairs) : pairs[i][2] # Undefined}
    IN  [name \in {pairs[i][1] : i \in defined} |->
            pairs[CHOOSE i \in defined : pairs[i][1] = name][2].n]

\* alpha = 100 in a destructuring pattern
Default100(v) == IF v = Undefined THEN NumV(100) ELSE v

rgbParams ==
    << <<"transformPercentage", "transformPercentage", "transformPercentage", "isSlash", "transformAlpha">>,
       <<"transformRGBNumber", "transformRGBNumber", "transformRGBNumber", "isSlash", "transformAlpha">>,
       <<"transformPercentage", "isComma", "transformPercentage", "isComma", "transformPercentage", "isComma", "transformAlpha">>,
       <<"transformRGBNumber", "isComma", "transformRGBNumber", "isComma", "transformRGBNumber", "isComma", "transformAlpha">> >>

\* transformRGBFunction once its arguments are read
transformRGBFunctionArgs(args, unresolved) ==
    IF Nth(args, 1) # Undefined
    THEN Returned(ColorV(NewColor(("colorspace" :> "rgb") @@
            ObjectOf(<< <<"red", Nth(args, 1)>>, <<"green", Nth(args, 2)>>,
                        <<"blue", Nth(args, 3)>>, <<"alpha", Default100(Nth(args, 4))>> >>))))
    ELSE manageUnresolved(unresolved, "Expected a valid rgb() function")

transformRGBFunction(node, unresolved) ==
    transformRGBFunctionArgs(transformArgsByParams(node, rgbParams), unresolved)

hslParams ==
    << <<"transformHue", "transformPercentage", "transformPercentage", "isSlash", "transformAlpha">>,
       <<"transformHue", "isComma", "transformPercentage", "isComma", "transformPercentage", "isComma", "transformAlpha">> >>

\* transformHSLFunction once its arguments are read
transformHSLFunctionArgs(args, unresolved) ==
    IF Nth(args, 3) # Undefined
    THEN Returned(ColorV(NewColor(("colorspace" :> "hsl") @@
            ObjectOf(<< <<"hue", Nth(args, 1)>>, <<"saturation", Nth(args, 2)>>,
                        <<"lightness", Nth(args, 3)>>, <<"alpha", Default100(Nth(args, 4))>> >>))))
    ELSE manageUnresolved(unresolved, "Expected a valid hsl() function")

transformHSLFunction(node, unresolved) ==
    transformHSLFunctionArgs(transformArgsByParams(node, hslParams), unresolved)

hwbParams ==
    << <<"transformHue", "transformPercentage", "transformPercentage", "isSlash", "transformAlpha">> >>

\* transformHWBFunction once its arguments are read
transformHWBFunctionArgs(args, unresolved) ==
    IF Nth(args, 3) # Undefined
    THEN Returned(ColorV(NewColor(("colorspace" :> "hwb") @@
            ObjectOf(<< <<"hue", Nth(args, 1)>>, <<"whiteness", Nth(args, 2)>>,
                        <<"blackness", Nth(args, 3)>>, <<"alpha", Default100(Nth(args, 4))>> >>))))
    ELSE manageUnresolved(unresolved, "Expected a valid hwb() function")

transformHWBFunction(node, unresolved) ==
    transformHWBFunctionArgs(transformArgsByParams(node, hwbParams), unresolved)

transformHexColor(node, unresolved) ==
    IF hexColorMatch(Text(node))
    THEN Returned(transformHexColorArg(node))
    ELSE manageUnresolved(unresolved, "Expected a valid hex color")

\* new Color({ red, green, blue, alpha: 100, colorspace: 'rgb' })
namedColorOf(c) ==
    ColorV(NewColor([red |-> c[1], green |-> c[2], blue |-> c[3],
                     alpha |-> 100, colorspace |-> "rgb"]))

transformNamedColor(node, unresolved) ==
    IF isNamedColor(node)
    THEN Returned(namedColorOf(convertNtoRGB(Text(node))))
    ELSE manageUnresolved(unresolved, "Expected a valid named-color")

(***************************************************************************)
(* Colour adjusters (1076-1313).  base is the value folded so far: a Color *)
(* or undefined.  The result of an adjuster also names the colour object   *)
(* of base as the call leaves it (this).                                   *)
(***************************************************************************)
ObjOf(base) == IF IsColor(base) THEN base.color ELSE Undefined

\* a setter of Color was called on base and returned
Mutated(m) == [v |-> ColorV(m.ret), w |-> <<>>, t |-> "none", this |-> m.this]

\* what manageUnresolved did, as the result of an adjuster that returns
\* with value v
Reported(r, v, base) == [v |-> v, w |-> r.w, t |-> r.t, this |-> ObjOf(base)]

\* a report that leaves the fold without a colour
reportAndDrop(base, r) == Reported(r, Undefined, base)

\* manageUnresolved(...); return base
reportAndKeep(base, r) == Reported(r, IF r.t = "none" THEN base ELSE Undefined, base)

\* an adjuster that reports and goes on with base
UnresolvedKeepingBase(base, unresolved, message) ==
    reportAndKeep(base, manageUnresolved(unresolved, message))

\* return manageUnresolved(node, opts, node.value, message)
Unresolved(base, unresolved, message) ==
    Reported(manageUnresolved(unresolved, message), Undefined, base)

\* a method called on undefined, or an exception out of transformArgsByParams
TypeErrorRaised(base) == [v |-> Undefined, w |-> <<>>, t |-> "TypeError", this |-> ObjOf(base)]

\* the operator forms shared by the channel and hue adjusters:
\* existing + Number(adjustment), existing - ..., existing * ..., or the
\* bare value
modifiedValue(existingValue, operatorOrValue, adjustment) ==
    IF adjustment # Undefined
    THEN IF operatorOrValue = StrV("+") THEN existingValue + adjustment.n
         ELSE IF operatorOrValue = StrV("-") THEN existingValue - adjustment.n
         ELSE IF operatorOrValue = StrV("*") THEN existingValue * adjustment.n
         ELSE adjustment.n
    ELSE operatorOrValue.n

\* base[channel](modifiedValue), with existingValue = base[channel](); the
\* getter raises a TypeError when base is undefined
adjustChannel(base, channel, operatorOrValue, adjustment) ==
    IF ~IsColor(base) THEN TypeErrorRaised(base)
    ELSE Mutated(Color_set(base.color, channel,
            modifiedValue(Color_get(base.color, channel), operatorOrValue, adjustment)))

alphaParams ==
    << <<"transformMinusPlusOperator", "transformAlpha">>,
       <<"transformTimesOperator", "transformPercentage">>,
       <<"transformAlpha">> >>

blueGreenRedParams ==
    << <<"transformMinusPlusOperator", "transformPercentage">>,
       <<"transformMinusPlusOperator", "transformRGBNumber">>,
       <<"transformTimesOperator", "transformPercentage">>,
       <<"transformPercentage">>,
       <<"transformRGBNumber">> >>

\* transformAlphaBlueGreenRedAdjuster once its arguments are read
transformAlphaBlueGreenRedAdjusterArgs(base, channel, args, unresolved) ==
    IF Nth(args, 1) # Undefined
    THEN adjustChannel(base, channel, Nth(args, 1), Nth(args, 2))
    ELSE Unresolved(base, unresolved, "Expected a valid modifier()")

transformAlphaBlueGreenRedAdjuster(base, node, unresolved) ==
    transformAlphaBlueGreenRedAdjusterArgs(base,
        IF alphaMatch(Text(node)) THEN "alpha" ELSE ToLowerCase(Text(node)),
        transformArgsByParams(node,
            IF alphaMatch(Text(node)) THEN alphaParams ELSE blueGreenRedParams),
        unresolved)

rgbAdjusterParams ==
    << <<"transformMinusPlusOperator", "transformPercentage", "transformPercentage", "transformPercentage">>,
       <<"transformMinusPlusOperator", "transformRGBNumber", "transformRGBNumber", "transformRGBNumber">>,
       <<"transformMinusPlusOperator", "transformHexColor">>,
       <<"transformTimesOperator", "transformPercentage">> >>

\* arg1 === '+' ? a + b : a - b
plusOrMinus(arg1, a, b) == IF arg1 = StrV("+") THEN a + b ELSE a - b

\* base.rgb(base.red() op r, base.green() op g, base.blue() op b), with
\* rgb the object the getters read (color2rgb of the receiver) and
\* amounts = <<r, g, b>>
rgbPlusOrMinus(this, rgb, arg1, amounts) ==
    Color_rgb(this, plusOrMinus(arg1, rgb.red, amounts[1]),
                    plusOrMinus(arg1, rgb.green, amounts[2]),
                    plusOrMinus(arg1, rgb.blue, amounts[3]))

\* base.rgb(base.red() * arg2, base.green() * arg2, base.blue() * arg2)
rgbTimes(this, rgb, arg2) ==
    Color_rgb(this, rgb.red * arg2, rgb.green * arg2, rgb.blue * arg2)

\* <<arg2.red(), arg2.green(), arg2.blue()>>
rgbChannels(rgb) == <<rgb.red, rgb.green, rgb.blue>>

\* transformRGBAdjuster once its arguments are read
transformRGBAdjusterArgs(base, arg1, arg2, arg3, arg4, unresolved) ==
    IF arg2 # Undefined /\ IsColor(arg2)
    THEN IF ~IsColor(base) THEN TypeErrorRaised(base)
         ELSE Mutated(rgbPlusOrMinus(base.color, color2rgb(base.color), arg1,
                                     rgbChannels(color2rgb(arg2.color))))
    ELSE IF arg1 # Undefined /\ arg1 \in {StrV("+"), StrV("-")}
    THEN IF ~IsColor(base) THEN TypeErrorRaised(base)
         ELSE Mutated(rgbPlusOrMinus(base.color, color2rgb(base.color), arg1,
                                     <<arg2.n, arg3.n, arg4.n>>))
    ELSE IF arg1 # Undefined /\ arg2 # Undefined
    THEN IF ~IsColor(base) THEN TypeErrorRaised(base)
         ELSE Mutated(rgbTimes(base.color, color2rgb(base.color), arg2.n))
    ELSE Unresolved(base, unresolved, "Expected a valid rgb() adjuster")

\* const [arg1, arg2, arg3, arg4] = args
transformRGBAdjusterDestructured(base, args, unresolved) ==
    transformRGBAdjusterArgs(base, Nth(args, 1), Nth(args, 2), Nth(args, 3), Nth(args, 4),
                             unresolved)

transformRGBAdjuster(base, node, unresolved) ==
    transformRGBAdjusterDestructured(base, transformArgsByParams(node, rgbAdjusterParams),
                                     unresolved)

blendParams == << <<"transformColor", "transformPercentage", "transformColorSpace">> >>

\* colorspace = 'rgb' as the default of a parameter
DefaultRGB(v) == IF v = Undefined THEN "rgb" ELSE v.s

\* base[isAlphaBlend ? 'blenda' : 'blend'](color.color, percentage, colorspace)
blendOrBlenda(base, other, percentage, colorspace, isAlphaBlend) ==
    IF ~IsColor(base) THEN TypeErrorRaised(base)
    ELSE IF isAlphaBlend
    THEN Mutated(Color_blenda(base.color, other.color, percentage.n, colorspace))
    ELSE Mutated(Color_blend(base.color, other.color, percentage.n, colorspace))

\* transformBlendAdjuster once its arguments are read
transformBlendAdjusterArgs(base, args, isAlphaBlend, unresolved) ==
    IF Nth(args, 2) # Undefined
    THEN blendOrBlenda(base, Nth(args, 1), Nth(args, 2), DefaultRGB(Nth(args, 3)), isAlphaBlend)
    ELSE Unresolved(base, unresolved, "Expected a valid blend() adjuster)")

\* transformBlendAdjuster on what the patterns gave: transformColor may have
\* raised inside transformArgsByParams
transformBlendAdjusterResults(base, all, isAlphaBlend, unresolved) ==
    IF hasTypeError(all) THEN TypeErrorRaised(base)
    ELSE transformBlendAdjusterArgs(base, firstMatch(all), isAlphaBlend, unresolved)

transformBlendAdjuster(base, node, isAlphaBlend, unresolved) ==
    transformBlendAdjusterResults(base, paramsResults(node, blendParams), isAlphaBlend,
                                  unresolved)

contrastParams == << <<"transformPercentage">> >>

\* transformContrastAdjuster once its argument is read
transformContrastAdjusterArgs(base, percentage, unresolved) ==
    IF percentage # Undefined
    THEN IF ~IsColor(base) THEN TypeErrorRaised(base)
         ELSE Mutated(Color_contrast(base.color, percentage.n))
    ELSE Unresolved(base, unresolved, "Expected a valid contrast() adjuster)")

transformContrastAdjuster(base, node, unresolved) ==
    transformContrastAdjusterArgs(base, Nth(transformArgsByParams(node, contrastParams), 1),
                                  unresolved)

hueParams == << <<"transformMinusPlusTimesOperator", "transformHue">>, <<"transformHue">> >>

\* transformHueAdjuster once its arguments are read
transformHueAdjusterArgs(base, args, unresolved) ==
    IF Nth(args, 1) # Undefined
    THEN adjustChannel(base, "hue", Nth(args, 1), Nth(args, 2))
    ELSE Unresolved(base, unresolved, "Expected a valid hue() function)")

transformHueAdjuster(base, node, unresolved) ==
    transformHueAdjusterArgs(base, transformArgsByParams(node, hueParams), unresolved)

blacknessLightnessSaturationWhitenessParams ==
    << <<"transformMinusPlusTimesOperator", "transformPercentage">>, <<"transformPercentage">> >>

\* node.value.toLowerCase().replace(/^b$/, 'blackness')...
longChannelName(lower) ==
    CASE lower = "b" -> "blackness"
      [] lower = "l" -> "lightness"
      [] lower = "s" -> "saturation"
      [] lower = "w" -> "whiteness"
      [] OTHER -> lower

\* transformBlacknessLightnessSaturationWhitenessAdjuster once its arguments
\* are read
transformBlacknessLightnessSaturationWhitenessAdjusterArgs(base, channel, args, unresolved) ==
    IF Nth(args, 1) # Undefined
    THEN adjustChannel(base, channel, Nth(args, 1), Nth(args, 2))
    ELSE Unresolved(base, unresolved, "Expected a valid " \o channel \o "() function)")

transformBlacknessLightnessSaturationWhitenessAdjuster(base, node, unresolved) ==
    transformBlacknessLightnessSaturationWhitenessAdjusterArgs(base,
        longChannelName(ToLowerCase(Text(node))),
        transformArgsByParams(node, blacknessLightnessSaturationWhitenessParams),
        unresolved)

shadeTintParams == << <<"transformPercentage">> >>

\* transformShadeTintAdjuster once its argument is read
transformShadeTintAdjusterArgs(base, channel, percentage, unresolved) ==
    IF percentage # Undefined
    THEN IF ~IsColor(base) THEN TypeErrorRaised(base)
         ELSE Mutated(Color_set(base.color, channel, percentage.n))
    ELSE Unresolved(base, unresolved, "Expected valid " \o channel \o "() arguments")

transformShadeTintAdjuster(base, node, unresolved) ==
    transformShadeTintAdjusterArgs(base, ToLowerCase(Text(node)),
        Nth(transformArgsByParams(node, shadeTintParams), 1), unresolved)

\* the callback of adjusterNodes.reduce in transformColorByAdjusters
reduceAdjuster(base, node, unresolved) ==
    IF isAlphaBlueGreenRedAdjuster(node) THEN transformAlphaBlueGreenRedAdjuster(base, node, unresolved)
    ELSE IF isRGBAdjuster(node) THEN transformRGBAdjuster(base, node, unresolved)
    ELSE IF isHueAdjuster(node) THEN transformHueAdjuster(base, node, unresolved)
    ELSE IF isBlacknessLightnessSaturationWhitenessAdjuster(node)
    THEN transformBlacknessLightnessSaturationWhitenessAdjuster(base, node, unresolved)
    ELSE IF isShadeTintAdjuster(node) THEN transformShadeTintAdjuster(base, node, unresolved)
    ELSE IF isBlendAdjuster(node)
    THEN transformBlendAdjuster(base, node, Text(node) = "blenda", unresolved)
    ELSE IF isContrastAdjuster(node) THEN transformContrastAdjuster(base, node, unresolved)
    ELSE reportAndKeep(base, manageUnresolved(unresolved, "Expected a valid color adjuster"))

\* the nodes the reduce of transformColorByAdjusters runs over
adjusterNodesOf(node) == SelectSeq(Tail(node.nodes), notSpaceOrComment)

\* the accumulator of the reduce after one callback returned r: its value,
\* with the warnings so far
folded(acc, r) == [v |-> r.v, w |-> acc.w \o r.w, t |-> r.t]

RECURSIVE reduceAdjusters(_, _, _)
reduceAdjusters(acc, nodes, unresolved) ==
    IF nodes = <<>> \/ acc.t # "none" THEN acc
    ELSE reduceAdjusters(folded(acc, reduceAdjuster(acc.v, nodes[1], unresolved)),
                         Tail(nodes), unresolved)

transformColorByAdjusters(c, adjusterNodes, unresolved) ==
    reduceAdjusters(Returned(c), SelectSeq(adjusterNodes, notSpaceOrComment), unresolved)

\* new Color({ hue, saturation: 100, lightness: 50, alpha: 100, colorspace: 'hsl' })
hueColor(hue) ==
    ColorV(NewColor([hue |-> hue.n, saturation |-> 100, lightness |-> 50, alpha |-> 100,
                     colorspace |-> "hsl"]))

\* a report made although the colour resolved
colorReported(r, unresolved) ==
    [r EXCEPT !.w = @ \o manageUnresolved(unresolved, "Expected a valid color").w]

\* if (color) ... else return manageUnresolved(..., `Expected a valid color`)
colorOrReport(r, unresolved) ==
    IF r.t # "none" \/ IsColor(r.v) THEN r
    ELSE folded(r, manageUnresolved(unresolved, "Expected a valid color"))

\* transformColorModFunction up to the call of transformColorByAdjusters:
\* the colour or hue node resolved, or reported
colorOrHue(node, unresolved) ==
    IF node.nodes # <<>>
    THEN colorOrReport(IF isHue(node.nodes[1])
                       THEN Returned(hueColor(transformHue(node.nodes[1])))
                       ELSE transformColor(node.nodes[1], unresolved),
                       unresolved)
    ELSE manageUnresolved(unresolved, "Expected a valid color-mod() function")

\* transformColorModFunction from the colour c on
adjustedColor(c, node, unresolved) ==
    IF c.t = "none" /\ IsColor(c.v)
    THEN folded(c, transformColorByAdjusters(c.v, Tail(node.nodes), unresolved))
    ELSE c

transformColorModFunction(node, unresolved) ==
    adjustedColor(colorOrHue(node, unresolved), node, unresolved)

transformColor(node, unresolved) ==
    IF isRGBFunction(node) THEN transformRGBFunction(node, unresolved)
    ELSE IF isHSLFunction(node) THEN transformHSLFunction(node, unresolved)
    ELSE IF isHWBFunction(node) THEN transformHWBFunction(node, unresolved)
    ELSE IF isColorModFunction(node) THEN transformColorModFunction(node, unresolved)
    ELSE IF isHexColor(node) THEN transformHexColor(node, unresolved)
    ELSE IF isNamedColor(node) THEN transformNamedColor(node, unresolved)
    ELSE manageUnresolved(unresolved, "Expected a color")

(***************************************************************************)
(* transformVariables (901-937) over parser.walk of postcss-value-parser:  *)
(* walk visits nodes[0 .. max-1] with max the length on entry, calls the   *)
(* callback, then descends into the node it read if that is a function.    *)
(* A result is the node list as the call leaves it and the exception       *)
(* raised (t), with the table as the call leaves it (customProperties).    *)
(* fuel counts the custom properties that may still be followed: a chain   *)
(* longer than the table repeats a property and never returns (RangeError: *)
(* the call stack overflows).                                              *)
(***************************************************************************)
\* looseVarMatch.test(parser.stringify(value)): some var( in the text
RECURSIVE looseVarMatch(_)
looseVarMatch(nodes) ==
    \E i \in 1..Len(nodes) :
        \/ isVariable(nodes[i])
        \/ HasNodes(nodes[i]) /\ looseVarMatch(nodes[i].nodes)

varParams == << <<"transformWord", "isComma", "transformNode">> >>

\* a splice that inserts the value and leaves the var() node in the list
spliceValueKeepingVar(nodes, index, value) ==
    SubSeq(nodes, 1, index - 1) \o value \o SubSeq(nodes, index, Len(nodes))

\* nodes with the node at index replaced by the nodes of value
spliceValue(nodes, index, value) ==
    SubSeq(nodes, 1, index - 1) \o value \o SubSeq(nodes, index + 1, Len(nodes))

RECURSIVE walk(_, _, _, _, _)

\* transformVariables(node, opts) on the node list of node
transformVariables(nodes, customProperties, fuel) ==
    walk(nodes, 1, Len(nodes), customProperties, fuel)

\* what the callback leaves: the list, the exception raised, whether the
\* var() node was taken out of the list, and the table as the call leaves it
Kept(nodes, t, customProperties) ==
    [nodes |-> nodes, t |-> t, removed |-> FALSE, customProperties |-> customProperties]

\* a follow that hands the nodes of the table entry themselves to
\* transformVariables: the entry is left as transformVariables left them
rootChildASTShared(customPropertyValue, followed) == followed

\* const rootChildAST = JSON.parse(JSON.stringify({ nodes:
\* customPropertyValue.nodes })): transformVariables works on a copy
\* (followed is what it leaves of the copy), the table entry keeps its nodes
rootChildAST(customPropertyValue, followed) == customPropertyValue

\* customPropertyValue = rootChildAST, once transformVariables returned v
followed(prop, v) ==
    [nodes |-> v.nodes, t |-> v.t,
     customProperties |-> [v.customProperties EXCEPT ![prop] = rootChildAST(@, v.nodes)]]

\* follow custom properties referencing custom properties
followedValue(prop, customProperties, fuel) ==
    IF ~looseVarMatch(customProperties[prop])
    THEN [nodes |-> customProperties[prop], t |-> "none", customProperties |-> customProperties]
    ELSE IF fuel = 0
    THEN [nodes |-> customProperties[prop], t |-> "RangeError",
          customProperties |-> customProperties]
    ELSE followed(prop, transformVariables(customProperties[prop], customProperties, fuel - 1))

\* replace var() with the custom property value
replacedByValue(value, nodes, index) ==
    IF value.t # "none" THEN Kept(nodes, value.t, value.customProperties)
    ELSE [nodes |-> spliceValue(nodes, index, value.nodes), t |-> "none",
          removed |-> TRUE, customProperties |-> value.customProperties]

\* nodes.splice(index, 1, ...fallbackNode.nodes[0].nodes[0]) spreads a node,
\* which is not iterable
spreadFallback(inner, nodes) ==
    Kept(nodes, IF inner.t # "none" THEN inner.t ELSE "TypeError", inner.customProperties)

\* else if (fallbackNode && fallbackNode.nodes.length === 1 &&
\* fallbackNode.nodes[0].nodes.length)
replacedByFallback(fallbackNode, nodes, customProperties, fuel) ==
    IF fallbackNode = Undefined THEN Kept(nodes, "none", customProperties)
    ELSE IF ~HasNodes(fallbackNode.node)
    THEN \* fallbackNode.nodes.length: nodes is undefined
         Kept(nodes, "TypeError", customProperties)
    ELSE IF Len(fallbackNode.node.nodes) # 1 THEN Kept(nodes, "none", customProperties)
    ELSE IF ~HasNodes(fallbackNode.node.nodes[1])
    THEN \* fallbackNode.nodes[0].nodes.length: nodes is undefined
         Kept(nodes, "TypeError", customProperties)
    ELSE IF Len(fallbackNode.node.nodes[1].nodes) = 0
    THEN Kept(nodes, "none", customProperties)
    ELSE spreadFallback(transformVariables(fallbackNode.node.nodes, customProperties, fuel),
                        nodes)

\* the callback once prop and fallbackNode are read
variableCallbackArgs(prop, fallbackNode, index, nodes, customProperties, fuel) ==
    IF prop # Undefined /\ prop.s \in DOMAIN customProperties
    THEN replacedByValue(followedValue(prop.s, customProperties, fuel), nodes, index)
    ELSE replacedByFallback(fallbackNode, nodes, customProperties, fuel)

\* const [prop, fallbackNode] = args
variableCallbackDestructured(args, index, nodes, customProperties, fuel) ==
    variableCallbackArgs(Nth(args, 1), Nth(args, 2), index, nodes, customProperties, fuel)

\* the callback of parser.walk in transformVariables, for a var() child
variableCallback(child, index, nodes, customProperties, fuel) ==
    variableCallbackDestructured(transformArgsByParams(child, varParams), index, nodes,
                                 customProperties, fuel)

\* walk after it has walked the children of node (inner)
walkAfterChildren(node, cb, inner, i, max, fuel) ==
    IF inner.t # "none"
    THEN [nodes |-> cb.nodes, t |-> inner.t, customProperties |-> inner.customProperties]
    ELSE IF cb.removed
    THEN \* node is no longer in the list: the walk of its children changes
         \* nothing that is kept
         walk(cb.nodes, i + 1, max, inner.customProperties, fuel)
    ELSE walk([cb.nodes EXCEPT ![i] = [node EXCEPT !.nodes = inner.nodes]],
              i + 1, max, inner.customProperties, fuel)

\* walk after the callback returned cb for node
walkAfterCallback(node, cb, i, max, fuel) ==
    IF cb.t # "none"
    THEN [nodes |-> cb.nodes, t |-> cb.t, customProperties |-> cb.customProperties]
    ELSE IF node.type = "function" /\ HasNodes(node)
    THEN walkAfterChildren(node, cb,
            walk(node.nodes, 1, Len(node.nodes), cb.customProperties, fuel),
            i, max, fuel)
    ELSE walk(cb.nodes, i + 1, max, cb.customProperties, fuel)

walk(nodes, i, max, customProperties, fuel) ==
    IF i > max THEN [nodes |-> nodes, t |-> "none", customProperties |-> customProperties]
    ELSE IF i > Len(nodes)
    THEN \* nodes[i] is undefined: the callback returns, node.type raises
         [nodes |-> nodes, t |-> "TypeError", customProperties |-> customProperties]
    ELSE walkAfterCallback(nodes[i],
            IF isVariable(nodes[i])
            THEN variableCallback(nodes[i], i, nodes, customProperties, fuel)
            ELSE Kept(nodes, "none", customProperties),
            i, max, fuel)

(***************************************************************************)
(* The default stringifier, color => color.toLegacy() (827-859, 1643): the *)
(* text of the replacement word, kept as the function name and the numbers *)
(* printed in it.                                                          *)
(***************************************************************************)
\* Math.round(x * 255 / 100)
Round255(x) == (x * 255 * 2 + 100) \div 200

\* the text of name(channels) or namea(channels, alpha)
legacyString(name, channels, alpha) ==
    [name |-> IF alpha = 100 THEN name ELSE name \o "a",
     channels |-> channels \o (IF alpha = 100 THEN <<>> ELSE <<alpha>>)]

\* Math.round(undefined * 255 / 100) is NaN: the channel is listed under NaN
\* and holds 0 in channels
roundedOrNaN(rgb, channel) == IF channel \in DOMAIN rgb THEN Round255(rgb[channel]) ELSE 0

rgbLegacyString(rgb) ==
    IF {"red", "green", "blue"} \subseteq DOMAIN rgb
    THEN legacyString("rgb", <<Round255(rgb.red), Round255(rgb.green), Round255(rgb.blue)>>,
                      rgb.alpha)
    ELSE ("NaN" :> {"red", "green", "blue"} \ DOMAIN rgb) @@
         legacyString("rgb", <<roundedOrNaN(rgb, "red"), roundedOrNaN(rgb, "green"),
                               roundedOrNaN(rgb, "blue")>>, rgb.alpha)

color2rgbLegacyString(c) == rgbLegacyString(color2rgb(c))

hslLegacyString(hsl) ==
    legacyString("hsl", <<hsl.hue, hsl.saturation, hsl.lightness>>, hsl.alpha)

color2hslLegacyString(c) == hslLegacyString(color2hsl(c))

color2legacyString(c) ==
    IF c.colorspace = "hsl" THEN color2hslLegacyString(c) ELSE color2rgbLegacyString(c)

stringifier(c) == color2legacyString(c.color)

\* { type: 'word', value: opts.stringifier(color) }
ReplacementWord(c) == [type |-> "word", value |-> [css |-> stringifier(c)]]

(***************************************************************************)
(* The declaration values the model runs on: one color-mod() call site,    *)
(* built from a colour or hue token and up to MaxAdjusters adjusters.      *)
(***************************************************************************)
\* [ + | - | * ] <value>, separated by spaces
Op(operator, value) == <<Word(operator), Space, value>>

Var(prop) == Fn("var", <<Word(prop)>>)

\* the custom properties of the stylesheet (getCustomProperties): the
\* parsed value of each property
CustomProperties ==
    ("--base" :> <<Word("#336699")>>) @@ ("--accent" :> <<Word("red")>>) @@
    ("--bad" :> <<Word("not-a-color")>>) @@ ("--ref" :> <<Var("--base")>>)

\* the custom properties whose value is a single colour token
ColorProperties == {"--base", "--accent"}

\* colour tokens for the runs that exercise the unresolved policy and var()
PolicyBases ==
    {Word("red"), Word("not-a-color"), Var("--base"), Var("--accent"),
     Var("--bad"), Var("--ref"), Var("--unknown")}

PolicyAdjusters ==
    {Fn("a", <<Word("foo")>>), Fn("alpha", <<Dim(50, "%")>>),
     Fn("foo", <<Dim(1, "")>>), Fn("blackness", Op("+", Dim(20, "%")))}

\* colour tokens for the runs that exercise the colour arithmetic
ColorBases ==
    {Word("red"), Word("#336699"), Word("#33333333"),
     Fn("rgb", <<Dim(200, "%"), Space, Dim(0, "%"), Space, Dim(0, "%")>>),
     Fn("hsl", <<Dim(-90, ""), Space, Dim(100, "%"), Space, Dim(50, "%")>>),
     Fn("hwb", <<Dim(400, ""), Space, Dim(20, "%"), Space, Dim(20, "%")>>),
     Dim(-90, "deg"), Dim(200, "deg")}

ColorAdjusters ==
    {Fn("alpha", Op("+", Dim(200, "%"))), Fn("a", Op("-", Dim(200, "%"))),
     Fn("red", Op("*", Dim(50, "%"))), Fn("blue", Op("-", Dim(255, ""))),
     Fn("green", <<Dim(40, "%")>>),
     Fn("rgb", Op("+", Word("#336699"))), Fn("rgb", Op("*", Dim(50, "%"))),
     Fn("hue", Op("+", Dim(400, "deg"))), Fn("hue", Op("-", Dim(90, "deg"))),
     Fn("h", Op("*", Dim(2, ""))),
     Fn("lightness", Op("+", Dim(60, "%"))), Fn("saturation", Op("-", Dim(200, "%"))),
     Fn("w", Op("*", Dim(2, "%"))), Fn("blackness", <<Dim(30, "%")>>),
     Fn("shade", <<Dim(50, "%")>>), Fn("tint", <<Dim(200, "%")>>),
     Fn("blend", <<Word("white"), Space, Dim(200, "%")>>),
     Fn("blenda", <<Word("#33333333"), Space, Dim(50, "%"), Space, Word("hsl")>>),
     Fn("contrast", <<Dim(50, "%")>>)}

\* the sequences over set of length at most n
RECURSIVE SeqsUpTo(_, _)
SeqsUpTo(set, n) ==
    IF n = 0 THEN {<<>>}
    ELSE LET shorter == SeqsUpTo(set, n - 1)
         IN  shorter \cup {Append(q, x) : q \in shorter, x \in set}

\* the children of color-mod(base adjuster ...): tokens separated by spaces
RECURSIVE SpaceSeparated(_)
SpaceSeparated(adjusters) ==
    IF adjusters = <<>> THEN <<>>
    ELSE <<Space, adjusters[1]>> \o SpaceSeparated(Tail(adjusters))

CallSite(base, adjusters) == Fn("color-mod", <<base>> \o SpaceSeparated(adjusters))

Policies == {"throw", "warn", "ignore"}

(***************************************************************************)
(* Init: the state when transformAST is entered for a declaration value.   *)
(***************************************************************************)
InitWith(bases, adjusters, policies, transformVarsOpts) ==
    /\ \E base \in bases, adjs \in SeqsUpTo(adjusters, MaxAdjusters) :
          /\ ast = <<CallSite(base, adjs)>>
          /\ original = ast
    /\ \E unresolved \in policies, transformVars \in transformVarsOpts :
          opts = [unresolved |-> unresolved, transformVars |-> transformVars,
                  customProperties |-> CustomProperties]
    /\ pc = "variables"
    /\ pos = 1
    /\ color = Undefined
    /\ receiver = Undefined
    /\ before = Undefined
    /\ adjusted = 0
    /\ warnings = <<>>
    /\ thrown = "none"
    /\ stack = <<>>
    /\ importFrom = <<>>
    /\ customPropertiesPromise =
          [state |-> "fulfilled", merged |-> 0, value |-> <<>>, settled |-> {}]
    /\ sheets = <<>>

Init == InitWith(PolicyBases, PolicyAdjusters, Policies, BOOLEAN)

InitColor == InitWith(ColorBases, ColorAdjusters, {"throw"}, {TRUE})

(***************************************************************************)
(* transformAST (874-896) on the call site ast[pos], one step per call it  *)
(* makes.                                                                  *)
(***************************************************************************)
\* an exception leaves transformAST
Throw(kind) ==
    /\ thrown' = kind
    /\ pc' = "thrown"

\* the call site once transformVariables has returned or raised
VariablesTransformed(child, r) ==
    /\ ast' = [ast EXCEPT ![pos] = [child EXCEPT !.nodes = r.nodes]]
    /\ opts' = [opts EXCEPT !.customProperties = r.customProperties]
    /\ IF r.t # "none" THEN Throw(r.t)
       ELSE /\ pc' = "color"
            /\ UNCHANGED thrown

\* if (opts.transformVars) transformVariables(child, opts)
TransformVariablesStep ==
    /\ pc = "variables"
    /\ VariablesTransformed(ast[pos],
          IF opts.transformVars
          THEN transformVariables(ast[pos].nodes, opts.customProperties,
                                  Cardinality(DOMAIN opts.customProperties))
          ELSE [nodes |-> ast[pos].nodes, t |-> "none",
                customProperties |-> opts.customProperties])
    /\ UNCHANGED <<original, pos, color, receiver, before, adjusted, warnings, stack, pluginVars>>

\* the colour or hue node resolved to r
ColorResolved(r) ==
    /\ warnings' = warnings \o r.w
    /\ color' = r.v
    /\ IF r.t # "none" THEN Throw(r.t)
       ELSE /\ pc' = IF IsColor(r.v) THEN "adjust" ELSE "replace"
            /\ UNCHANGED thrown

\* transformColorModFunction: the colour or hue node
ColorStep ==
    /\ pc = "color"
    /\ ColorResolved(colorOrHue(ast[pos], opts.unresolved))
    /\ UNCHANGED <<ast, original, opts, pos, receiver, before, adjusted, stack, pluginVars>>

\* the reduce callback returned r
Adjusted(r) ==
    /\ before' = ObjOf(color)
    /\ receiver' = r.this
    /\ color' = r.v
    /\ warnings' = warnings \o r.w
    /\ adjusted' = adjusted + 1
    /\ IF r.t # "none" THEN Throw(r.t)
       ELSE UNCHANGED <<pc, thrown>>

\* transformColorByAdjusters: one call of the reduce callback
AdjustStep ==
    /\ pc = "adjust"
    /\ adjusted < Len(adjusterNodesOf(ast[pos]))
    /\ Adjusted(reduceAdjuster(color, adjusterNodesOf(ast[pos])[adjusted + 1], opts.unresolved))
    /\ UNCHANGED <<ast, original, opts, pos, stack, pluginVars>>

\* if (color) node.nodes.splice(index, 1, { type: 'word', value: ... })
ReplaceStep ==
    /\ \/ pc = "replace"
       \/ pc = "adjust" /\ adjusted = Len(adjusterNodesOf(ast[pos]))
    /\ ast' = IF IsColor(color) THEN [ast EXCEPT ![pos] = ReplacementWord(color)] ELSE ast
    /\ pc' = "done"
    /\ UNCHANGED <<original, opts, pos, color, receiver, before, adjusted, warnings, thrown, stack, pluginVars>>

Next ==
    \/ TransformVariablesStep
    \/ ColorStep
    \/ AdjustStep
    \/ ReplaceStep

Spec == Init /\ [][Next]_vars

SpecColor == InitColor /\ [][Next]_vars

(***************************************************************************)
(* transformAST on one call site as a function of the site and the         *)
(* options: the token left at the site, the warnings and the exception.    *)
(***************************************************************************)
\* the site once transformColorModFunction returned r
siteOutcome(site, r) ==
    [node |-> IF r.t = "none" /\ IsColor(r.v) THEN ReplacementWord(r.v) ELSE site,
     warnings |-> r.w, thrown |-> r.t]

\* the site once transformVariables returned v
siteAfterVariables(site, v, o) ==
    IF v.t # "none"
    THEN [node |-> [site EXCEPT !.nodes = v.nodes], warnings |-> <<>>, thrown |-> v.t]
    ELSE siteOutcome([site EXCEPT !.nodes = v.nodes],
                     transformColorModFunction([site EXCEPT !.nodes = v.nodes], o.unresolved))

transformASTSite(site, o) ==
    siteAfterVariables(site,
        IF o.transformVars
        THEN transformVariables(site.nodes, o.customProperties,
                                Cardinality(DOMAIN o.customProperties))
        ELSE [nodes |-> site.nodes, t |-> "none"],
        o)

(***************************************************************************)
(* Vocabulary of the properties.                                           *)
(***************************************************************************)
\* transformAST has returned or raised
Finished == pc \in {"done", "thrown"}

\* the call site was replaced by a word
Replaced == ast[pos].type = "word"

\* the reduce callback has just run on LastAdjuster
AfterAdjuster == pc \in {"adjust", "thrown"} /\ adjusted >= 1

LastAdjuster == adjusterNodesOf(ast[pos])[adjusted]

\* a mutator of Color was called on a Color by the last callback
MutatorCalled == AfterAdjuster /\ before # Undefined /\ receiver # Undefined

\* the channel a channel adjuster works on
channelOf(node) ==
    IF alphaMatch(Text(node)) THEN "alpha" ELSE longChannelName(ToLowerCase(Text(node)))

\* the argument patterns of a channel adjuster
channelParamsOf(node) ==
    IF alphaMatch(Text(node)) THEN alphaParams
    ELSE IF isAlphaBlueGreenRedAdjuster(node) THEN blueGreenRedParams
    ELSE blacknessLightnessSaturationWhitenessParams

isChannelAdjuster(node) ==
    isAlphaBlueGreenRedAdjuster(node) \/ isBlacknessLightnessSaturationWhitenessAdjuster(node)

\* the value a channel adjuster computes before it hands it to the setter
ChannelComputed(this, node) ==
    LET args == transformArgsByParams(node, channelParamsOf(node))
    IN  modifiedValue(Color_get(this, channelOf(node)), Nth(args, 1), Nth(args, 2))

\* the three values an rgb() adjuster computes before it hands them to rgb()
RGBComputed(this, node) ==
    LET args == transformArgsByParams(node, rgbAdjusterParams)
        rgb == color2rgb(this)
    IN  IF IsColor(Nth(args, 2))
        THEN [c \in {"red", "green", "blue"} |->
                 plusOrMinus(Nth(args, 1), rgb[c], color2rgb(Nth(args, 2).color)[c])]
        ELSE IF Nth(args, 1) \in {StrV("+"), StrV("-")}
        THEN [red |-> plusOrMinus(Nth(args, 1), rgb.red, Nth(args, 2).n),
              green |-> plusOrMinus(Nth(args, 1), rgb.green, Nth(args, 3).n),
              blue |-> plusOrMinus(Nth(args, 1), rgb.blue, Nth(args, 4).n)]
        ELSE [c \in {"red", "green", "blue"} |-> rgb[c] * Nth(args, 2).n]

\* a computed value below 0 gives exactly 0, one above 100 exactly 100
ClampedTo(computed, result) ==
    /\ computed < 0 => result = 0
    /\ computed > 100 => result = 100
    /\ (computed >= 0 /\ computed <= 100) => result = computed

\* the non-hue channels of the canonical colourspace of a colour object
CanonicalChannels(c) ==
    IF c.colorspace = "hsl" THEN {"saturation", "lightness"}
    ELSE IF c.colorspace = "hwb" THEN {"whiteness", "blackness"}
    ELSE {"red", "green", "blue"}

(***************************************************************************)
(* Properties.                                                             *)
(***************************************************************************)
\* C1: for color-mod(not-a-color) the transform raises under 'throw';
\* under 'warn' it emits exactly one warning and leaves the value
\* unchanged; under 'ignore' it emits nothing and leaves the value
\* unchanged.
C1_UnresolvedPolicyContract ==
    (Finished /\ original[pos] = CallSite(Word("not-a-color"), <<>>)) =>
        CASE opts.unresolved = "throw" -> thrown = "CssSyntaxError"
          [] opts.unresolved = "warn" ->
                thrown = "none" /\ Len(warnings) = 1 /\ ast = original
          [] opts.unresolved = "ignore" ->
                thrown = "none" /\ warnings = <<>> /\ ast = original

C3_UnresolvedLeftVerbatim ==
    (pc = "done" /\ opts.unresolved \in {"warn", "ignore"} /\ ~Replaced) => ast = original

\* C4: under 'ignore' and 'warn' transformAST never raises, also when an
\* adjuster with unparseable arguments is followed by further adjusters.
C4_NeverRaisesWhenLenient ==
    opts.unresolved \in {"warn", "ignore"} => thrown = "none"

\* C5: every Color in the pipeline has every non-hue channel of its
\* canonical colourspace, and alpha, within [0, 100].
C5_ChannelsInRange ==
    IsColor(color) =>
        \A c \in CanonicalChannels(color.color) \cup {"alpha"} :
            color.color[c] >= 0 /\ color.color[c] <= 100

\* C6: every Color in the pipeline has its hue within [0, 360), whether
\* seeded from a bare hue or a literal or returned by an adjuster.
C6_HueInRange ==
    IsColor(color) => (color.color.hue >= 0 /\ color.color.hue < 360)

\* C7: a channel adjuster (alpha, red, green, blue, blackness, lightness,
\* saturation, whiteness, rgb()) whose computed value is below 0 gives
\* exactly 0 and above 100 exactly 100, in every operator form; it does not
\* wrap and reports nothing.
C7_ChannelAdjustersClamp ==
    /\ (MutatorCalled /\ isChannelAdjuster(LastAdjuster)) =>
          /\ thrown = "none"
          /\ IsColor(color)
          /\ ClampedTo(ChannelComputed(before, LastAdjuster),
                       color.color[channelOf(LastAdjuster)])
    /\ (MutatorCalled /\ isRGBAdjuster(LastAdjuster)) =>
          /\ thrown = "none"
          /\ IsColor(color)
          /\ \A c \in {"red", "green", "blue"} :
                ClampedTo(RGBComputed(before, LastAdjuster)[c], color.color[c])

\* a channel adjuster computed a value above 100 and the channel is 100
C7_Witness ==
    /\ MutatorCalled
    /\ isChannelAdjuster(LastAdjuster)
    /\ ChannelComputed(before, LastAdjuster) > 100
    /\ IsColor(color)
    /\ color.color[channelOf(LastAdjuster)] = 100

\* the angle written in hue([ + | - | * ] angle), in degrees
WrittenAngle(node) == childrenOf(node)[2].value.number

\* h op a for the operator written in the adjuster
HueComputed(h, node) ==
    LET operator == Text(childrenOf(node)[1])
    IN  IF operator = "+" THEN h + WrittenAngle(node)
        ELSE IF operator = "-" THEN h - WrittenAngle(node)
        ELSE h * WrittenAngle(node)

\* C8: hue()/h() with an operator always wraps: the new hue is (h op a)
\* modulo 360 taken in [0, 360); a subtraction that goes below 0 wraps
\* around rather than stopping at 0.
C8_HueAdjusterWraps ==
    (MutatorCalled /\ isHueAdjuster(LastAdjuster) /\ Len(childrenOf(LastAdjuster)) = 2) =>
        /\ IsColor(color)
        /\ color.color.hue = HueComputed(Color_get(before, "hue"), LastAdjuster) % 360

LeadsWithColorProperty ==
    /\ isVariable(original[pos].nodes[1])
    /\ Len(original[pos].nodes[1].nodes) = 1
    /\ Text(original[pos].nodes[1].nodes[1]) \in ColorProperties

\* color-mod(V A) for the parsed call site color-mod(var(P) A)
WithValueWritten ==
    [original[pos] EXCEPT
        !.nodes = opts.customProperties[Text(original[pos].nodes[1].nodes[1])]
                  \o Tail(original[pos].nodes)]

\* C10: with transformVars enabled, color-mod(var(P) A) and color-mod(V A)
\* give the same output, for every custom property P whose value is the
\* single colour token V and every adjuster sequence A.
C10_VarEqualsValue ==
    (Finished /\ opts.transformVars /\ LeadsWithColorProperty) =>
        [node |-> ast[pos], warnings |-> warnings, thrown |-> thrown]
            = transformASTSite(WithValueWritten, opts)

\* color-mod(var(P) A) with a non-empty A was replaced
C10_Witness ==
    /\ pc = "done"
    /\ opts.transformVars
    /\ LeadsWithColorProperty
    /\ adjusted >= 1
    /\ Replaced

(***************************************************************************)
(* transformAST (874-896) over a whole token list: the forEach over the    *)
(* children of the declaration value, and the call of transformAST on a    *)
(* child that is no color-mod() call and has children of its own.          *)
(***************************************************************************)
MaxChildren == 3

\* the children of a declaration value: plain tokens, call sites that
\* resolve, call sites that do not, and a function holding a call site
TreeChildren ==
    {Word("solid"), Space,
     CallSite(Word("red"), <<>>),
     CallSite(Word("not-a-color"), <<>>),
     CallSite(Var("--bad"), <<>>),
     CallSite(Var("--base"), <<Fn("alpha", <<Dim(50, "%")>>)>>),
     Fn("linear-gradient", <<CallSite(Word("red"), <<>>), DivTok(","), Space, Word("blue")>>)}

InitTree ==
    /\ ast \in SeqsUpTo(TreeChildren, MaxChildren) \ {<<>>}
    /\ original = ast
    /\ \E unresolved \in Policies, transformVars \in BOOLEAN :
          opts = [unresolved |-> unresolved, transformVars |-> transformVars,
                  customProperties |-> CustomProperties]
    /\ pc = "child"
    /\ pos = 1
    /\ color = Undefined
    /\ receiver = Undefined
    /\ before = Undefined
    /\ adjusted = 0
    /\ warnings = <<>>
    /\ thrown = "none"
    /\ stack = <<>>
    /\ importFrom = <<>>
    /\ customPropertiesPromise =
          [state |-> "fulfilled", merged |-> 0, value |-> <<>>, settled |-> {}]
    /\ sheets = <<>>

\* the forEach callback is entered for the child at pos: a call site, a
\* child with children (transformAST(child, opts)), or any other token
ChildStep ==
    /\ pc = "child"
    /\ IF isColorModFunction(ast[pos])
       THEN /\ pc' = "variables"
            /\ UNCHANGED <<ast, original, pos, stack>>
       ELSE IF HasNodes(ast[pos]) /\ ast[pos].nodes # <<>>
       THEN /\ stack' = <<[nodes |-> ast, index |-> pos, original |-> original]>> \o stack
            /\ ast' = ast[pos].nodes
            /\ original' = original[pos].nodes
            /\ pos' = 1
            /\ pc' = "child"
       ELSE /\ pc' = "done"
            /\ UNCHANGED <<ast, original, pos, stack>>
    /\ UNCHANGED <<opts, color, receiver, before, adjusted, warnings, thrown, pluginVars>>

\* forEach goes on to the next child
ForEachStep ==
    /\ pc = "done"
    /\ pos < Len(ast)
    /\ pos' = pos + 1
    /\ pc' = "child"
    /\ color' = Undefined
    /\ receiver' = Undefined
    /\ before' = Undefined
    /\ adjusted' = 0
    /\ UNCHANGED <<ast, original, opts, warnings, thrown, stack, pluginVars>>

\* forEach is over in a call of transformAST made for a child: the callback
\* of the calling forEach returns, its child holding the nodes as they are now
ReturnStep ==
    /\ pc = "done"
    /\ pos = Len(ast)
    /\ stack # <<>>
    /\ ast' = [stack[1].nodes EXCEPT ![stack[1].index].nodes = ast]
    /\ original' = stack[1].original
    /\ pos' = stack[1].index
    /\ stack' = Tail(stack)
    /\ color' = Undefined
    /\ receiver' = Undefined
    /\ before' = Undefined
    /\ adjusted' = 0
    /\ UNCHANGED <<opts, pc, warnings, thrown, pluginVars>>

NextTree ==
    \/ ChildStep
    \/ TransformVariablesStep
    \/ ColorStep
    \/ AdjustStep
    \/ ReplaceStep
    \/ ForEachStep
    \/ ReturnStep

SpecTree == InitTree /\ [][NextTree]_vars

\* the callback has returned for the child at index i
ChildVisited(i) == i < pos \/ (i = pos /\ pc = "done")

\* a word token that holds the output of the stringifier
IsReplacementWord(node) == node.type = "word" /\ "css" \in DOMAIN node.value

\* token a stands where token o stood, and differs from it only by call
\* sites that were replaced by one word
RECURSIVE SameOutsideResolved(_, _)
SameOutsideResolved(o, a) ==
    IF isColorModFunction(o) THEN a = o \/ IsReplacementWord(a)
    ELSE IF HasNodes(o)
    THEN /\ HasNodes(a)
         /\ a.type = o.type
         /\ a.value = o.value
         /\ Len(a.nodes) = Len(o.nodes)
         /\ \A j \in 1..Len(o.nodes) : SameOutsideResolved(o.nodes[j], a.nodes[j])
    ELSE a = o

\* C11: transformAST puts one word holding the stringifier's output at the
\* position of each resolved call site; the number and order of the
\* parent's children and every token outside the resolved call sites stay
\* as they were parsed.
C11_ResolvedSitesReplacedInPlace ==
    /\ Len(ast) = Len(original)
    /\ \A i \in 1..Len(ast) :
          IF ChildVisited(i) THEN SameOutsideResolved(original[i], ast[i])
          ELSE i > pos => ast[i] = original[i]
    /\ (pc = "done" /\ isColorModFunction(original[pos]) /\ IsColor(color))
          => ast[pos] = ReplacementWord(color)

(***************************************************************************)
(* The colour functions on argument lists of every shape: the runs that    *)
(* exercise transformArgsByParams (1434-1451) through transformRGBFunction,*)
(* transformHSLFunction and transformHWBFunction (961-1014).               *)
(***************************************************************************)
MaxArgs == 5

\* a percentage, a bare zero, a bare number, and the two separators
ArgTokens == {Dim(50, "%"), Dim(0, ""), Dim(51, ""), DivTok(","), DivTok("/")}

\* the children the parser gives for an argument list: two words that
\* follow each other are separated by a space
RECURSIVE SpacedArgs(_)
SpacedArgs(args) ==
    IF Len(args) <= 1 THEN args
    ELSE <<args[1]>>
         \o (IF args[1].type = "word" /\ args[2].type = "word" THEN <<Space>> ELSE <<>>)
         \o SpacedArgs(Tail(args))

ArgBases ==
    {Fn(name, SpacedArgs(args)) :
        name \in {"rgb", "rgba", "hsl", "hwb"}, args \in SeqsUpTo(ArgTokens, MaxArgs)}

ArgAdjusters == {Fn("alpha", <<Dim(50, "%")>>)}

InitArgs == InitWith(ArgBases, ArgAdjusters, {"warn"}, {TRUE})

SpecArgs == InitArgs /\ [][Next]_vars

\* the colour token of the call site, as it was parsed
BaseNode == original[1].nodes[1]

\* transformColorModFunction has resolved the colour token, or failed to
BaseTransformed == pc \notin {"variables", "color"}

\* a channel argument: a percentage or a bare number
IsChannelToken(node) == node.type = "word" /\ HasUnit(node) /\ node.value.unit \in {"%", ""}

\* the three channel arguments of rgb(), in the space-separated form
\* (optionally followed by / alpha) or in the comma-separated one
\* (optionally followed by , alpha); <<>> for any other argument list
ChannelArgs(args) ==
    IF /\ Len(args) \in {3, 5}
       /\ \A i \in 1..3 : IsChannelToken(args[i])
       /\ Len(args) = 5 => (isSlash(args[4]) /\ IsChannelToken(args[5]))
    THEN <<args[1], args[2], args[3]>>
    ELSE IF /\ Len(args) \in {5, 7}
            /\ \A i \in {1, 3, 5} : IsChannelToken(args[i])
            /\ \A i \in {2, 4} : isComma(args[i])
            /\ Len(args) = 7 => (isComma(args[6]) /\ IsChannelToken(args[7]))
    THEN <<args[1], args[3], args[5]>>
    ELSE <<>>

\* the channel arguments mix percentage tokens and bare-number tokens
MixedChannels(args) ==
    /\ \E i \in 1..Len(ChannelArgs(args)) : ChannelArgs(args)[i].value.unit = "%"
    /\ \E i \in 1..Len(ChannelArgs(args)) : ChannelArgs(args)[i].value.unit = ""

\* C12: an rgb()/rgba() function whose three channel arguments mix
\* percentages and bare numbers matches no pattern: it is reported as
\* "Expected a valid rgb() function" and no Color is produced for it.
C12_MixedRGBReported ==
    (BaseTransformed /\ isRGBFunction(BaseNode) /\ MixedChannels(childrenOf(BaseNode)))
        => /\ \E i \in 1..Len(warnings) : warnings[i] = "Expected a valid rgb() function"
           /\ ~IsColor(color)

(***************************************************************************)
(* The blend adjusters (1211-1225, blend 552-599) on every percentage at   *)
(* the ends and in the middle, in every blend colourspace.                 *)
(***************************************************************************)
BlendBases ==
    {Word("red"), Word("#33333333"),
     Fn("hsl", <<Dim(200, ""), Space, Dim(0, "%"), Space, Dim(50, "%")>>)}

\* blend(other percentage) or blend(other percentage colorspace)
BlendCall(name, other, percentage, colorspaces) ==
    Fn(name, <<other, Space, Dim(percentage, "%")>> \o SpaceSeparated(colorspaces))

BlendAdjusters ==
    {BlendCall(name, other, percentage, colorspaces) :
        name \in {"blend", "blenda"},
        other \in {Word("white"), Word("#33333333")},
        percentage \in {0, 50, 100},
        colorspaces \in {<<>>, <<Word("hsl")>>, <<Word("hwb")>>}}

InitBlend == InitWith(BlendBases, BlendAdjusters, {"throw"}, {TRUE})

SpecBlend == InitBlend /\ [][Next]_vars

\* the arguments written in blend(other percentage colorspace?)
BlendOther(node) == transformColor(childrenOf(node)[1], "throw").v.color

BlendPercentage(node) == childrenOf(node)[2].value.number

BlendSpace(node) ==
    IF Len(childrenOf(node)) >= 3 THEN Text(childrenOf(node)[3]) ELSE "rgb"

\* the channels blend computes in a colourspace
SpaceChannels(colorspace) ==
    IF colorspace = "hsl" THEN {"hue", "saturation", "lightness"}
    ELSE IF colorspace = "hwb" THEN {"hue", "whiteness", "blackness"}
    ELSE {"red", "green", "blue"}

\* the colour objects c and d hold the same channels of the colourspace
SameChannels(c, d, colorspace) ==
    \A channel \in SpaceChannels(colorspace) :
        color2space(c, colorspace)[channel] = color2space(d, colorspace)[channel]

\* the last callback ran blend() or blenda() on a Color
Blended(name) == MutatorCalled /\ thrown = "none" /\ Text(LastAdjuster) = name

C13_WitnessAlphaKept ==
    /\ Blended("blend")
    /\ BlendPercentage(LastAdjuster) = 50
    /\ BlendOther(LastAdjuster).alpha # before.alpha
    /\ color.color.alpha = before.alpha

(***************************************************************************)
(* The contrast adjuster (1228-1241, contrast 680-705) on light, dark and  *)
(* saturated bases.                                                        *)
(***************************************************************************)
ContrastBases ==
    {Word("red"), Word("white"), Word("black"), Word("#336699"),
     Fn("hsl", <<Dim(200, ""), Space, Dim(0, "%"), Space, Dim(50, "%")>>),
     Fn("rgb", <<Dim(200, "%"), Space, Dim(0, "%"), Space, Dim(0, "%")>>)}

ContrastAdjusters == {Fn("contrast", <<Dim(percentage, "%")>>) : percentage \in {0, 50, 100}}

InitContrast == InitWith(ContrastBases, ContrastAdjusters, {"throw"}, {TRUE})

SpecContrast == InitContrast /\ [][Next]_vars

\* the last callback ran contrast() on a Color
Contrasted ==
    MutatorCalled /\ thrown = "none" /\ isContrastAdjuster(LastAdjuster) /\ IsColor(color)

ContrastPercentage == childrenOf(LastAdjuster)[1].value.number

\* colors2contrast(color1, color2) >= 4.5
contrastAtLeast45(color1, color2) ==
    LET l1 == luminanceOf(color2rgb(color1))
        l2 == luminanceOf(color2rgb(color2))
    IN  IF l1 > l2 THEN 2 * (l1 + 5) >= 9 * (l2 + 5) ELSE 2 * (l2 + 5) >= 9 * (l1 + 5)

\* some colour of the hue of base has a contrast ratio of 4.5 with base
HueReaches45(base) ==
    \E whiteness \in {0, 50, 100}, blackness \in {0, 50, 100} :
        /\ whiteness + blackness <= 100
        /\ contrastAtLeast45([hue |-> color2hwb(base).hue, whiteness |-> whiteness,
                              blackness |-> blackness, alpha |-> base.alpha,
                              colorspace |-> "hwb"], base)

\* C14: contrast(100%) never returns a colour whose contrast ratio with the
\* base colour is under 4.5, unless no colour of the hue of the base reaches
\* 4.5.
C14_ContrastReaches45 ==
    (Contrasted /\ ContrastPercentage = 100) =>
        contrastAtLeast45(color.color, before) \/ ~HueReaches45(before)

(***************************************************************************)
(* The blend adjusters in both letter cases (isBlendAdjuster and           *)
(* isColorSpace match with /i; 1090-1091, 1319-1326, 552-599).             *)
(***************************************************************************)
CaseBases == {Word("red"), Word("#336699")}

CaseAdjusters ==
    {BlendCall(name, Word("#33333333"), 50, colorspaces) :
        name \in {"blend", "blenda", "BLEND", "BLENDA"},
        colorspaces \in {<<>>, <<Word("hsl")>>, <<Word("HSL")>>, <<Word("hwb")>>,
                         <<Word("HWB")>>, <<Word("rgb")>>, <<Word("RGB")>>}}

InitCase == InitWith(CaseBases, CaseAdjusters, {"throw"}, {TRUE})

SpecCase == InitCase /\ [][Next]_vars

\* the token with its text in lower case
LowerCasedToken(node) ==
    IF "text" \in DOMAIN node.value
    THEN [node EXCEPT !.value = [text |-> ToLowerCase(node.value.text)]]
    ELSE node

\* the adjuster with its name and its keywords in lower case
LowerCased(node) ==
    [LowerCasedToken(node) EXCEPT
        !.nodes = [i \in DOMAIN node.nodes |-> LowerCasedToken(node.nodes[i])]]

\* C17: names and keywords match in every letter case with the same
\* behaviour: a blend adjuster spelled in upper case (BLENDA, which must
\* interpolate the alpha) or given an upper-case colourspace keyword (HSL,
\* HWB, RGB) produces the Color its lower-case spelling produces.
C17_SameInEveryCase ==
    (MutatorCalled /\ thrown = "none" /\ isBlendAdjuster(LastAdjuster)) =>
        color = reduceAdjuster(ColorV(before), LowerCased(LastAdjuster), "throw").v

(***************************************************************************)
(* transformArgsByParams (1434-1451) on the argument lists of SpecArgs.    *)
(***************************************************************************)
\* the patterns the colour function of the call site is matched against
ParamsOf(node) ==
    IF isRGBFunction(node) THEN rgbParams
    ELSE IF isHSLFunction(node) THEN hslParams
    ELSE hwbParams

\* the values transformArgsByParams returned for the colour function
BaseArgs == transformArgsByParams(BaseNode, ParamsOf(BaseNode))

\* the pattern has a position for every child, and its transform at each
\* index accepts the child at that index
Accepts(param, children) ==
    /\ Len(param) >= Len(children)
    /\ \A i \in 1..Len(children) :
          applyParam(param[i], children[i]) \notin {Undefined, BoolV(FALSE)}

\* the patterns that accept the children, by index
Accepting(params, children) == {p \in 1..Len(params) : Accepts(params[p], children)}

Lowest(indexes) == CHOOSE p \in indexes : \A q \in indexes : p <= q

\* the values the transforms of the pattern produce for the children
ValuesOf(param, children) ==
    SelectSeq([i \in 1..Len(children) |-> applyParam(param[i], children[i])], notBoolean)

\* C18: transformArgsByParams returns the values of the lowest-index pattern
\* for which every child that is no space and no comment is accepted by the
\* transform of the pattern at the same index (a pattern with fewer
\* positions than there are children never matches), and the empty list
\* when no pattern matches.
C18_LowestAcceptingPattern ==
    BaseTransformed =>
        IF Accepting(ParamsOf(BaseNode), childrenOf(BaseNode)) # {}
        THEN BaseArgs = ValuesOf(ParamsOf(BaseNode)[Lowest(Accepting(ParamsOf(BaseNode),
                                                                    childrenOf(BaseNode)))],
                                 childrenOf(BaseNode))
        ELSE BaseArgs = <<>>

\* the pattern passes the filter of transformArgsByParams
Matches(param, children) == everyDefined(paramResults(children, param))

\* C19: a pattern matches only if each of its positions succeeds on the
\* child at that index, separators included: a pattern with a comma or a
\* slash position never matches an argument list whose child at that index
\* is not that comma or slash.
C19_SeparatorsRequired ==
    BaseTransformed =>
        \A p \in 1..Len(ParamsOf(BaseNode)) :
            Matches(ParamsOf(BaseNode)[p], childrenOf(BaseNode)) =>
                \A i \in 1..Len(childrenOf(BaseNode)) :
                    ParamsOf(BaseNode)[p][i] \in {"isComma", "isSlash"} =>
                        applyParam(ParamsOf(BaseNode)[p][i], childrenOf(BaseNode)[i]) = BoolV(TRUE)

\* the channel arguments among the children of the colour function
ChannelCount(children) == Cardinality({i \in 1..Len(children) : IsChannelToken(children[i])})

RGBReported == \E i \in 1..Len(warnings) : warnings[i] = "Expected a valid rgb() function"

\* C20: transformRGBFunction produces a Color only when red, green and blue
\* were all parsed: an rgb()/rgba() call with fewer than three channel
\* arguments is reported as "Expected a valid rgb() function" and never
\* yields a Color with an undefined channel.
C20_RGBNeedsThreeChannels ==
    (BaseTransformed /\ isRGBFunction(BaseNode)) =>
        /\ IsColor(color) => {"red", "green", "blue"} \subseteq DOMAIN color.color
        /\ ChannelCount(childrenOf(BaseNode)) < 3 => (RGBReported /\ ~IsColor(color))

(***************************************************************************)
(* The plugin (module.exports, 1638-1686).  One plugin instance imports    *)
(* the custom properties of its importFrom sources once                    *)
(* (importCustomPropertiesFromSources, 119-163) and runs the Once hook on  *)
(* each stylesheet it is given.  Once awaits the import, assigns the       *)
(* stylesheet's own html/:root properties and walks the declarations; the  *)
(* walk is synchronous, so no other hook and no import step runs while a   *)
(* stylesheet is walked.                                                   *)
(***************************************************************************)
MaxSources == 2

MaxSheets == 2

\* Object.assign(target, source) on custom-property tables
Assign(target, source) == source @@ target

\* the custom properties a source yields
SourceTables ==
    {("--imported" :> <<Word("blue")>>), ("--x" :> <<Word("white")>>),
     ("--x" :> <<Word("black")>>)}

\* a source: the table it yields, or a load that fails (a missing file, a
\* rejected promise)
Sources ==
    {[customProperties |-> table, ok |-> TRUE] : table \in SourceTables}
        \cup {[customProperties |-> <<>>, ok |-> FALSE]}

\* a stylesheet: the custom properties of its html and of its :root rules
\* and the values of the declarations walkDecls visits
Stylesheets ==
    {[html |-> ("--x" :> <<Word("green")>>), root |-> ("--x" :> <<Word("red")>>),
      decls |-> << <<CallSite(Var("--x"), <<>>)>> >>],
     [html |-> <<>>, root |-> <<>>,
      decls |-> << <<Word("solid"), Space, CallSite(Var("--x"), <<>>)>> >>],
     [html |-> <<>>, root |-> <<>>,
      decls |-> << <<Word("block")>>,
                   <<Fn("linear-gradient",
                        <<CallSite(Var("--imported"), <<Fn("alpha", <<Dim(50, "%")>>)>>)>>)>> >>]}

\* the hook's view of a stylesheet: values are the declarations as they
\* stand, decl is the index of the last declaration visited
NewSheet(stylesheet) ==
    [html |-> stylesheet.html, root |-> stylesheet.root, decls |-> stylesheet.decls, values |-> stylesheet.decls,
     state |-> "idle", decl |-> 0]

\* return { ...customPropertiesFromHtmlElement, ...customPropertiesFromRootPsuedo }
getCustomProperties(root) == Assign(root.html, root.root)

\* colorModFunctionMatch.test(originalValue): a color-mod( in the value
RECURSIVE colorModFunctionMatch(_)
colorModFunctionMatch(nodes) ==
    \E i \in 1..Len(nodes) :
        \/ isColorModFunction(nodes[i])
        \/ HasNodes(nodes[i]) /\ colorModFunctionMatch(nodes[i].nodes)

\* const customPropertiesPromise = importCustomPropertiesFromSources(importFrom)
InitPlugin ==
    /\ importFrom \in SeqsUpTo(Sources, MaxSources)
    /\ customPropertiesPromise =
          [state |-> IF importFrom = <<>> THEN "fulfilled" ELSE "pending",
           merged |-> 0, value |-> <<>>, settled |-> {}]
    /\ \E given \in SeqsUpTo(Stylesheets, MaxSheets) \ {<<>>} :
          sheets = [s \in 1..Len(given) |-> NewSheet(given[s])]
    /\ \E unresolved \in {"throw", "warn"} :
          opts = [unresolved |-> unresolved, transformVars |-> TRUE, customProperties |-> <<>>]
    /\ ast = <<>>
    /\ original = <<>>
    /\ pc = "idle"
    /\ pos = 1
    /\ color = Undefined
    /\ receiver = Undefined
    /\ before = Undefined
    /\ adjusted = 0
    /\ warnings = <<>>
    /\ thrown = "none"
    /\ stack = <<>>

\* no stylesheet is being walked
NoWalk == \A s \in DOMAIN sheets : sheets[s].state # "walking"

\* the promise once the next source is read
sourceMerged(promise, source, last) ==
    IF source.ok
    THEN [promise EXCEPT !.state = IF last THEN "fulfilled" ELSE "pending",
                         !.merged = @ + 1,
                         !.value = Assign(@, source.customProperties)]
    ELSE [promise EXCEPT !.state = "rejected"]

\* a source of importFrom (a promise, the promise of a function, a file
\* read) settles, in any order
SourceSettles ==
    /\ NoWalk
    /\ customPropertiesPromise.state = "pending"
    /\ \E k \in DOMAIN importFrom \ customPropertiesPromise.settled :
          customPropertiesPromise' =
              [customPropertiesPromise EXCEPT !.settled = @ \cup {k}]
    /\ UNCHANGED <<ast, original, opts, pc, pos, color, receiver, before, adjusted,
                   warnings, thrown, stack, importFrom, sheets>>

\* the source the reduce merges next: the callbacks get the sources in the
\* order of the list and each awaits the accumulator of the one before
nextSource(promise) == promise.merged + 1

\* one callback of the reduce: Object.assign(await customProperties, await
\* import...(from)), or the rejection of the source
LoadStep ==
    /\ NoWalk
    /\ customPropertiesPromise.state = "pending"
    /\ nextSource(customPropertiesPromise) \in customPropertiesPromise.settled
    /\ customPropertiesPromise' =
          sourceMerged(customPropertiesPromise,
                       importFrom[nextSource(customPropertiesPromise)],
                       customPropertiesPromise.merged + 1 = Len(importFrom))
    /\ UNCHANGED <<ast, original, opts, pc, pos, color, receiver, before, adjusted,
                   warnings, thrown, stack, importFrom, sheets>>

\* await customPropertiesPromise lets Once go on
awaitedNever(promise) == TRUE

awaited(promise) == promise.state = "fulfilled"

\* postcss calls Once(root, { result }): the hook runs up to its await
OnceCall ==
    \E s \in DOMAIN sheets :
        /\ NoWalk
        /\ sheets[s].state = "idle"
        /\ sheets' = [sheets EXCEPT ![s].state = "awaiting"]
        /\ UNCHANGED <<ast, original, opts, pc, pos, color, receiver, before, adjusted,
                       warnings, thrown, stack, importFrom, customPropertiesPromise>>

\* Object.assign(await customPropertiesPromise, getCustomProperties(root,
\* { preserve: true })): the object the promise resolved to is the target
OnceResume ==
    \E s \in DOMAIN sheets :
        /\ NoWalk
        /\ sheets[s].state = "awaiting"
        /\ awaited(customPropertiesPromise)
        /\ customPropertiesPromise' =
              [customPropertiesPromise EXCEPT !.value = Assign(@, getCustomProperties(sheets[s]))]
        /\ sheets' = [sheets EXCEPT ![s].state = "walking"]
        /\ warnings' = <<>>
        /\ UNCHANGED <<ast, original, opts, pc, pos, color, receiver, before, adjusted,
                       thrown, stack, importFrom>>

\* the await raises the rejection of the import
OnceReject ==
    \E s \in DOMAIN sheets :
        /\ NoWalk
        /\ sheets[s].state = "awaiting"
        /\ customPropertiesPromise.state = "rejected"
        /\ sheets' = [sheets EXCEPT ![s].state = "rejected"]
        /\ UNCHANGED <<ast, original, opts, pc, pos, color, receiver, before, adjusted,
                       warnings, thrown, stack, importFrom, customPropertiesPromise>>

\* root.walkDecls(decl => ...): the next declaration; a value with a
\* color-mod( is parsed and handed to transformAST
WalkDecl ==
    \E s \in DOMAIN sheets :
        /\ sheets[s].state = "walking"
        /\ pc = "idle"
        /\ sheets[s].decl < Len(sheets[s].decls)
        /\ sheets' = [sheets EXCEPT ![s].decl = @ + 1]
        /\ IF colorModFunctionMatch(sheets[s].decls[sheets[s].decl + 1])
           THEN /\ ast' = sheets[s].decls[sheets[s].decl + 1]
                /\ original' = ast'
                /\ opts' = [opts EXCEPT !.customProperties = customPropertiesPromise.value]
                /\ pc' = "child"
                /\ pos' = 1
                /\ color' = Undefined
                /\ receiver' = Undefined
                /\ before' = Undefined
                /\ adjusted' = 0
           ELSE UNCHANGED <<ast, original, opts, pc, pos, color, receiver, before, adjusted>>
        /\ UNCHANGED <<warnings, thrown, stack, importFrom, customPropertiesPromise>>

\* if (originalValue !== modifiedValue) decl.value = modifiedValue
DeclDone ==
    \E s \in DOMAIN sheets :
        /\ sheets[s].state = "walking"
        /\ pc = "done"
        /\ pos = Len(ast)
        /\ stack = <<>>
        /\ sheets' = [sheets EXCEPT ![s].values[sheets[s].decl] = ast]
        /\ pc' = "idle"
        /\ UNCHANGED <<ast, original, opts, pos, color, receiver, before, adjusted,
                       warnings, thrown, stack, importFrom, customPropertiesPromise>>

\* an exception out of transformAST leaves walkDecls and rejects Once
WalkThrows ==
    \E s \in DOMAIN sheets :
        /\ sheets[s].state = "walking"
        /\ pc = "thrown"
        /\ sheets' = [sheets EXCEPT ![s].state = "rejected"]
        /\ pc' = "idle"
        /\ thrown' = "none"
        /\ stack' = <<>>
        /\ UNCHANGED <<ast, original, opts, pos, color, receiver, before, adjusted,
                       warnings, importFrom, customPropertiesPromise>>

\* walkDecls has visited every declaration: Once returns
OnceReturn ==
    \E s \in DOMAIN sheets :
        /\ sheets[s].state = "walking"
        /\ pc = "idle"
        /\ sheets[s].decl = Len(sheets[s].decls)
        /\ sheets' = [sheets EXCEPT ![s].state = "done"]
        /\ UNCHANGED <<ast, original, opts, pc, pos, color, receiver, before, adjusted,
                       warnings, thrown, stack, importFrom, customPropertiesPromise>>

NextPlugin ==
    \/ SourceSettles
    \/ LoadStep
    \/ OnceCall
    \/ OnceResume
    \/ OnceReject
    \/ WalkDecl
    \/ ChildStep
    \/ TransformVariablesStep
    \/ ColorStep
    \/ AdjustStep
    \/ ReplaceStep
    \/ ForEachStep
    \/ ReturnStep
    \/ DeclDone
    \/ WalkThrows
    \/ OnceReturn

SpecPlugin == InitPlugin /\ [][NextPlugin]_vars

\* the custom properties of the sources, merged in the order of importFrom
RECURSIVE ImportedFrom(_)
ImportedFrom(sources) ==
    IF sources = <<>> THEN <<>>
    ELSE Assign(ImportedFrom(SubSeq(sources, 1, Len(sources) - 1)),
                sources[Len(sources)].customProperties)

\* transformAST is at work on a declaration of stylesheet s
Transforming(s) == sheets[s].state = "walking" /\ pc # "idle"

\* C15: no mutable state is shared between runs: the custom-property table
\* used for a stylesheet holds only the properties of the imported sources
\* and the stylesheet's own html/:root properties, never a property that
\* only another stylesheet of the same plugin instance declared.
C15_TableOfStylesheetOnly ==
    \A s \in DOMAIN sheets :
        Transforming(s) =>
            \A prop \in DOMAIN opts.customProperties :
                \/ /\ prop \in DOMAIN getCustomProperties(sheets[s])
                   /\ opts.customProperties[prop] = getCustomProperties(sheets[s])[prop]
                \/ /\ prop \in DOMAIN ImportedFrom(importFrom)
                   /\ opts.customProperties[prop] = ImportedFrom(importFrom)[prop]

\* every source of importFrom is loaded and merged
AllLoaded ==
    /\ customPropertiesPromise.state = "fulfilled"
    /\ customPropertiesPromise.merged = Len(importFrom)
    /\ \A k \in DOMAIN importFrom : importFrom[k].ok
    /\ \A prop \in DOMAIN ImportedFrom(importFrom) : prop \in DOMAIN customPropertiesPromise.value

\* a declaration of stylesheet s was rewritten
Rewritten(s) == sheets[s].values # sheets[s].decls

\* the walk of stylesheet s has begun
WalkBegun(s) == sheets[s].state \in {"walking", "done"} \/ Transforming(s) \/ Rewritten(s)

\* C16: the loading of all importFrom sources completes before the
\* transform of any declaration begins: in every run of Once no declaration
\* is parsed or rewritten until every source is loaded and merged, and when
\* a source fails to load no declaration is rewritten.
C16_LoadedBeforeTransform ==
    /\ [](\A s \in DOMAIN sheets : WalkBegun(s) => AllLoaded)
    /\ []((\E k \in DOMAIN importFrom : ~importFrom[k].ok) =>
             \A s \in DOMAIN sheets : ~Rewritten(s))
    /\ [][\A s \in DOMAIN sheets :
             (sheets[s].state # "walking" /\ sheets'[s].state = "walking") => AllLoaded]_vars

\* Once has returned for a stylesheet whose declaration was rewritten with
\* a property of a loaded source
C16_Witness ==
    \E s \in DOMAIN sheets :
        /\ sheets[s].state = "done"
        /\ Rewritten(s)
        /\ importFrom # <<>>
        /\ AllLoaded
        /\ sheets[s].root = <<>>

(***************************************************************************)
(* transformVariables (901-937) on call sites whose children are var()     *)
(* references, under tables with values of zero, one and several tokens,   *)
(* with references between properties, and with cycles.                    *)
(***************************************************************************)
MaxVars == 2

\* values of zero, one and several tokens, and a reference to a property
AcyclicProperties ==
    ("--one" :> <<Word("red")>>) @@
    ("--two" :> <<Word("red"), Space, Fn("alpha", <<Dim(50, "%")>>)>>) @@
    ("--none" :> <<>>) @@
    ("--ref" :> <<Var("--one")>>)

\* a property that references itself, and two that reference each other
CyclicProperties ==
    ("--one" :> <<Word("red")>>) @@
    ("--self" :> <<Var("--self")>>) @@
    ("--a" :> <<Var("--b")>>) @@
    ("--b" :> <<Var("--a")>>)

VarTables == {AcyclicProperties, CyclicProperties}

\* var(prop, fallback)
VarOr(prop, fallback) == Fn("var", <<Word(prop), DivTok(","), fallback>>)

\* the children of the call site: var() references and plain tokens
VarTokens ==
    {Var("--one"), Var("--two"), Var("--none"), Var("--ref"), Var("--self"), Var("--a"),
     Var("--missing"),
     VarOr("--missing", Word("red")),
     VarOr("--missing", Fn("rgb", <<Fn("calc", <<Word("red")>>)>>)),
     Fn("blend", <<Var("--one"), Space, Dim(50, "%")>>),
     Fn("alpha", <<Dim(50, "%")>>)}

InitVars ==
    /\ \E children \in SeqsUpTo(VarTokens, MaxVars) \ {<<>>} :
          /\ ast = <<Fn("color-mod", Tail(SpaceSeparated(children)))>>
          /\ original = ast
    /\ \E unresolved \in Policies, table \in VarTables :
          opts = [unresolved |-> unresolved, transformVars |-> TRUE,
                  customProperties |-> table]
    /\ pc = "variables"
    /\ pos = 1
    /\ color = Undefined
    /\ receiver = Undefined
    /\ before = Undefined
    /\ adjusted = 0
    /\ warnings = <<>>
    /\ thrown = "none"
    /\ stack = <<>>
    /\ importFrom = <<>>
    /\ customPropertiesPromise =
          [state |-> "fulfilled", merged |-> 0, value |-> <<>>, settled |-> {}]
    /\ sheets = <<>>

SpecVars == InitVars /\ [][Next]_vars

\* transformVariables has returned or raised on the call site (pc is
\* "color" when it has returned)
VariablesRun == pc # "variables"

\* the custom property a var() token names
PropOf(node) == IF node.nodes # <<>> THEN Text(node.nodes[1]) ELSE ""

\* some var() of a property of the table is in the tokens, at any depth
RECURSIVE HasKnownVar(_, _)
HasKnownVar(nodes, table) ==
    \E i \in 1..Len(nodes) :
        \/ isVariable(nodes[i]) /\ PropOf(nodes[i]) \in DOMAIN table
        \/ HasNodes(nodes[i]) /\ HasKnownVar(nodes[i].nodes, table)

\* C21: after transformVariables has run on a color-mod() call site, no
\* var() of a property of the table remains anywhere in the subtree of the
\* call site, whatever the place of the var() among its siblings and
\* whatever the number of tokens of the values written in.
C21_NoKnownVarLeft ==
    pc = "color" => ~HasKnownVar(ast[pos].nodes, opts.customProperties)

\* C22: transformVariables terminates for every custom-property table, also
\* when a property references itself or properties reference each other in
\* a cycle: the recursion returns, it does not go on until the call stack
\* is exhausted.
C22_TransformVariablesReturns ==
    VariablesRun => thrown # "RangeError"

\* the call site is color-mod(V ...) with V the token named
LeadsWith(token) == original[pos].nodes[1] = token

\* the call site failed colour parsing through the unresolved policy
FailedByPolicy ==
    /\ ast[pos] = original[pos]
    /\ IF opts.unresolved = "throw" THEN thrown = "CssSyntaxError"
       ELSE /\ thrown = "none"
            /\ (opts.unresolved = "warn") = (warnings # <<>>)

\* C24: a var() of a property that is not in the table, with no fallback or
\* with a fallback that is a plain word, is left in place, and the call
\* site then fails colour parsing through the unresolved policy (an error
\* under throw, a warning under warn, nothing under ignore), not through
\* another exception.
C24_MissingVarFailsByPolicy ==
    (Finished /\ Len(original[pos].nodes) = 1
        /\ (LeadsWith(Var("--missing")) \/ LeadsWith(VarOr("--missing", Word("red")))))
        => FailedByPolicy

\* C25: a var() of a property that is not in the table whose fallback is a
\* single nested value is replaced, in the child list of its parent, by the
\* children of the first token of the fallback, and the call site is then
\* evaluated with those tokens.
C25_NestedFallbackInlined ==
    (VariablesRun /\ isVariable(original[pos].nodes[1])
        /\ PropOf(original[pos].nodes[1]) \notin DOMAIN opts.customProperties
        /\ Len(original[pos].nodes[1].nodes) = 3
        /\ HasNodes(original[pos].nodes[1].nodes[3])
        /\ Len(original[pos].nodes[1].nodes[3].nodes) = 1
        /\ HasNodes(original[pos].nodes[1].nodes[3].nodes[1])
        /\ Len(original[pos].nodes) = 1)
        => /\ thrown = "none"
           /\ pc = "color" =>
                 ast[pos].nodes = original[pos].nodes[1].nodes[3].nodes[1].nodes

Unrecognised(node) ==
    ~ \/ isAlphaBlueGreenRedAdjuster(node)
      \/ isRGBAdjuster(node)
      \/ isHueAdjuster(node)
      \/ isBlacknessLightnessSaturationWhitenessAdjuster(node)
      \/ isShadeTintAdjuster(node)
      \/ isBlendAdjuster(node)
      \/ isContrastAdjuster(node)

RECURSIVE WithoutUnrecognised(_)
\* the adjuster tokens without the unrecognised ones (and the space before
\* each of them)
WithoutUnrecognised(nodes) ==
    IF Len(nodes) < 2 THEN nodes
    ELSE IF Unrecognised(nodes[2]) THEN WithoutUnrecognised(Tail(Tail(nodes)))
    ELSE <<nodes[1], nodes[2]>> \o WithoutUnrecognised(Tail(Tail(nodes)))

\* the call site as it was parsed, without its unrecognised adjusters
SiteWithoutUnrecognised ==
    [original[pos] EXCEPT !.nodes = <<@[1]>> \o WithoutUnrecognised(Tail(@))]

\* C26: an unrecognised adjuster name is reported as "Expected a valid
\* color adjuster" through the unresolved policy, and when the policy does
\* not raise the fold goes on with the colour it had: the remaining
\* adjusters are applied, left to right, to the colour accumulated before
\* the unrecognised one.
C26_UnrecognisedAdjusterSkipped ==
    /\ (AfterAdjuster /\ Unrecognised(LastAdjuster)) =>
          IF opts.unresolved = "throw" THEN thrown = "CssSyntaxError"
          ELSE /\ thrown = "none"
               /\ ObjOf(color) = before
               /\ opts.unresolved = "warn" =>
                     warnings[Len(warnings)] = "Expected a valid color adjuster"
               /\ opts.unresolved = "ignore" => warnings = <<>>
    /\ (Finished /\ opts.unresolved # "throw") =>
          /\ IF Replaced THEN ast[pos] = transformASTSite(SiteWithoutUnrecognised, opts).node
             ELSE transformASTSite(SiteWithoutUnrecognised, opts).node.type # "word"
          /\ thrown = transformASTSite(SiteWithoutUnrecognised, opts).thrown

\* color-mod(C foo(1) alpha(50%)) was replaced, under warn, by the colour
\* alpha(50%) makes of C
C26_Witness ==
    /\ pc = "done"
    /\ Replaced
    /\ opts.unresolved = "warn"
    /\ Len(adjusterNodesOf(original[pos])) = 2
    /\ Unrecognised(adjusterNodesOf(original[pos])[1])
    /\ isAlphaBlueGreenRedAdjuster(adjusterNodesOf(original[pos])[2])
    /\ warnings = <<"Expected a valid color adjuster">>
    /\ ast[pos] # transformASTSite([original[pos] EXCEPT !.nodes = <<@[1]>>], opts).node

AllRecognised ==
    \A i \in 1..Len(adjusterNodesOf(original[pos])) :
        ~Unrecognised(adjusterNodesOf(original[pos])[i])

TimesPercentage(node, params) ==
    /\ Nth(transformArgsByParams(node, params), 1) = StrV("*")
    /\ Nth(transformArgsByParams(node, params), 2) # Undefined

\* the percentage P of * P%
PercentageOf(node) == childrenOf(node)[Len(childrenOf(node))].value.number

\* result = clamp(channel * P / 100), in hundredths
ScaledBy(channel, P, result) ==
    /\ channel * P < 0 => result = 0
    /\ channel * P > 10000 => result = 100
    /\ (channel * P >= 0 /\ channel * P <= 10000) => 100 * result = channel * P

\* C28: the * <percentage> form is a uniform scale by that percentage:
\* rgb(* P%) sets each of red, green and blue to clamp(channel * P / 100),
\* and alpha/red/green/blue/blackness/lightness/saturation/whiteness(* P%)
\* set the named channel to clamp(channel * P / 100), so that * 50% halves a
\* channel and * 100% leaves it unchanged.
C28_TimesIsUniformScale ==
    /\ (/\ MutatorCalled
        /\ isChannelAdjuster(LastAdjuster)
        /\ TimesPercentage(LastAdjuster, channelParamsOf(LastAdjuster))) =>
          /\ IsColor(color)
          /\ ScaledBy(Color_get(before, channelOf(LastAdjuster)),
                      PercentageOf(LastAdjuster),
                      color.color[channelOf(LastAdjuster)])
    /\ (/\ MutatorCalled
        /\ isRGBAdjuster(LastAdjuster)
        /\ TimesPercentage(LastAdjuster, rgbAdjusterParams)) =>
          /\ IsColor(color)
          /\ \A c \in {"red", "green", "blue"} :
                ScaledBy(color2rgb(before)[c], PercentageOf(LastAdjuster),
                         color.color[c])

(***************************************************************************)
(* The search of colors2contrastRatioColor (743-770), on the calls that    *)
(* contrast() makes in SpecContrast.                                       *)
(***************************************************************************)
\* the wider of the whiteness and the blackness interval
SearchWidth(minW, minB, maxW, maxB) == Max2(Abs(minW - maxW), Abs(minB - maxB))

\* how often a width is halved, rounding up, before it is at most 100
RECURSIVE Halvings(_)
Halvings(width) == IF width <= 100 THEN 0 ELSE 1 + Halvings((width + 1) \div 2)

\* the loop leaves within n iterations, each with a narrower interval than
\* the one before
RECURSIVE SearchNarrows(_, _, _, _, _, _)
SearchNarrows(hwb, minW, minB, maxW, maxB, n) ==
    IF ~searchContinues(minW, minB, maxW, maxB) THEN TRUE
    ELSE IF n = 0 THEN FALSE
    ELSE IF contrastOver45([hwb EXCEPT !.whiteness = RoundHalf(maxW, minW),
                                       !.blackness = RoundHalf(maxB, minB)], hwb)
    THEN /\ SearchWidth(minW, minB, RoundHalf(maxW, minW), RoundHalf(maxB, minB))
               < SearchWidth(minW, minB, maxW, maxB)
         /\ SearchNarrows(hwb, minW, minB, RoundHalf(maxW, minW), RoundHalf(maxB, minB), n - 1)
    ELSE /\ SearchWidth(RoundHalf(maxW, minW), RoundHalf(maxB, minB), maxW, maxB)
               < SearchWidth(minW, minB, maxW, maxB)
         /\ SearchNarrows(hwb, RoundHalf(maxW, minW), RoundHalf(maxB, minB), maxW, maxB, n - 1)

\* the maximum-contrast colour contrast() picks for a base
MaxContrastColor(base) ==
    maxContrastColorOf(color2hwb(base), luminanceOf(color2rgb(base)))

\* contrast() on the base called colors2contrastRatioColor
SearchCalled == Contrasted /\ contrastOver45(before, MaxContrastColor(before))

\* whiteness and blackness of the base lie in 0..100
SearchInRange ==
    /\ color2hwb(before).whiteness \in 0..100
    /\ color2hwb(before).blackness \in 0..100

C29_WitnessIterated ==
    /\ SearchCalled
    /\ ~SearchInRange
    /\ Halvings(SearchWidth(color2hwb(before).whiteness, color2hwb(before).blackness,
                            MaxContrastColor(before).whiteness,
                            MaxContrastColor(before).blackness)) > 0

(***************************************************************************)
(* The order of the merge (119-163, 1656-1660, 10-48), for every order in  *)
(* which the sources of SpecPlugin settle.                                 *)
(***************************************************************************)
\* the sources of importFrom that define a property
Defining(prop) == {k \in DOMAIN importFrom : prop \in DOMAIN importFrom[k].customProperties}

\* the last of a set of sources in the list
LastOf(sources) == CHOOSE k \in sources : \A j \in sources : j <= k

\* the properties a source or the stylesheet s defines
DefinedFor(s) ==
    UNION {DOMAIN importFrom[k].customProperties : k \in DOMAIN importFrom}
        \cup DOMAIN sheets[s].html \cup DOMAIN sheets[s].root

\* C30: custom-property sources are merged in list order regardless of the
\* order in which their loads complete: a property defined by several
\* importFrom sources takes the value of the last such source in the list,
\* and a property also declared in the stylesheet's own html/:root rules
\* takes the stylesheet's value, :root over html.
C30_MergedInListOrder ==
    \A s \in DOMAIN sheets :
        Transforming(s) =>
            \A prop \in DefinedFor(s) :
                /\ prop \in DOMAIN opts.customProperties
                /\ opts.customProperties[prop] =
                      IF prop \in DOMAIN sheets[s].root THEN sheets[s].root[prop]
                      ELSE IF prop \in DOMAIN sheets[s].html THEN sheets[s].html[prop]
                      ELSE importFrom[LastOf(Defining(prop))].customProperties[prop]

=============================================================================
